---- MODULE Spec2Model ----
(***************************************************************************)
(* Verification model of SoapySDRPlay3: the in-memory stream engine        *)
(* (Streaming.cpp), stream teardown against the vendor callback            *)
(* (Streaming.cpp) and the shared-memory ring between worker and proxy     *)
(* (RingBuffer.cpp, SoapySDRPlayProxy.cpp, SoapySDRPlayWorker.cpp).        *)
(*                                                                         *)
(* Each subsystem has its own variables and its own specification; a       *)
(* specification leaves the variables of the other subsystems unchanged.   *)
(***************************************************************************)
EXTENDS Integers, Sequences, FiniteSets, TLC

(***************************************************************************)
(* Program constants                                                       *)
(***************************************************************************)
\* DEFAULT_NUM_BUFFERS, SoapySDRPlay.hpp:98 (numBuffers, SoapySDRPlay.hpp:509)
numBuffers == 8
\* DEFAULT_ELEMS_PER_SAMPLE, SoapySDRPlay.hpp:99
elementsPerSample == 2

(***************************************************************************)
(* Bounds of the model                                                     *)
(***************************************************************************)
\* bufferElems (DEFAULT_BUFFER_LENGTH = 65536 samples) scaled down
BufElems == 2
\* number of vendor callbacks (bursts) explored after the warm-up
MaxBursts == 3
\* number of asynchronous reset requests (setSampleRate / activateStream)
MaxResets == 1
\* buffers the direct-access consumer holds at the same time
MaxHeld == 2

\* bufferLength = bufferElems * elementsPerSample, Streaming.cpp:404
bufferLength == BufElems * elementsPerSample
\* a burst may be one sample longer than a whole buffer
MaxBurst == BufElems + 1
\* decimation factors the model switches between (1 = none)
DecFactors == {1, 2}

Handles == 0 .. (numBuffers - 1)
NullPtr == <<>>

Min(a, b) == IF a < b THEN a ELSE b

(***************************************************************************)
(* State of the stream engine (one SoapySDRPlayStream and its consumer)    *)
(***************************************************************************)
VARIABLES
    count,                  \* stream->count, number of in-flight buffers
    head,                   \* stream->head
    tail,                   \* stream->tail
    buffs,                  \* shortBuffs / floatBuffs: Handles -> Seq(sample id)
    overflowEvent,          \* stream->overflowEvent
    reset,                  \* stream->reset
    decimationFactor,       \* chParams->ctrlParams.decimation.decimationFactor
    cachedBufferThreshold,  \* bufferLength / decFactor
    device_unavailable,     \* set by ev_callback
    nElems,                 \* stream->nElems (samples left of the current fragment)
    currentHandle,          \* stream->currentHandle
    currentBuff,            \* stream->currentBuff: NullPtr or <<handle, sample offset>>
    pc,                     \* position of the consumer thread
    reqElems,               \* numElems of the readStream call in progress
    held,                   \* handles acquired through the direct API, not yet released
    mode,                   \* API the consumer uses: "read" (readStream) or "direct"
    bursts,                 \* callbacks delivered so far
    nextSample,             \* id of the next sample the vendor produces
    resets,                 \* reset requests issued so far
    op,                     \* the operation that made the last step
    ret,                    \* return value of the last consumer call
    lastDelivered,          \* id of the sample handed to the consumer last
    inOrder                 \* every sample handed over so far had a larger id than the one before

svars == <<count, head, tail, buffs, overflowEvent, reset, decimationFactor,
           cachedBufferThreshold, device_unavailable, nElems, currentHandle,
           currentBuff, pc, reqElems, held, mode, bursts, nextSample, resets,
           op, ret, lastDelivered, inOrder>>

Ret(c, n) == [code |-> c, n |-> n]

\* buff.size() in elements: every sample is one I and one Q element
BuffSize(b) == Len(b) * elementsPerSample

\* the buffers that are completed and not yet released: the count buffers before tail
InFlight(t, c) == {(t + numBuffers * 2 - k) % numBuffers : k \in 1 .. c}

\* ids of the samples of one burst; ids are given to the samples that are stored
BurstIds(ns, numSamples) == [i \in 1 .. numSamples |-> ns + i - 1]

\* the ghost order check: is seq a continuation of what was delivered so far
OrderedAfter(last, seq) ==
    \A i \in 1 .. Len(seq) : seq[i] > (IF i = 1 THEN last ELSE seq[i - 1])
LastOf(last, seq) == IF Len(seq) = 0 THEN last ELSE seq[Len(seq)]

(***************************************************************************)
(* Producer: SoapySDRPlay::rx_callback, run with stream->mutex held        *)
(***************************************************************************)
RingFull_beyond(c) == c > numBuffers
\* Streaming.cpp:138
RingFull(c) == c = numBuffers

\* Streaming.cpp:156, the fill buffer reached the threshold
ReachedThreshold(size, spaceReqd, threshold) == size + spaceReqd >= threshold

\* Streaming.cpp:164, ring became full and the burst does not fit the next buffer
NoRoomInNext(c, spaceReqd, nextSize) ==
    c = numBuffers /\ spaceReqd > bufferLength - nextSize

ExceedsCapacity_never(newSize) == FALSE
\* Streaming.cpp:179-180, resize would exceed the reserved capacity
ExceedsCapacity(newSize) == newSize > bufferLength

\* Streaming.cpp:138-196: what one callback does to the ring. c, t, b, ovf are
\* stream->count, tail, the buffers and overflowEvent; ns is the id of the next
\* stored sample; thr is cachedBufferThreshold.
RxApply(c, t, b, ovf, ns, thr, numSamples) ==
    IF RingFull(c)
    THEN [count |-> c, tail |-> t, buffs |-> b, overflowEvent |-> TRUE, nextSample |-> ns]
    ELSE LET spaceReqd == numSamples * elementsPerSample
             threshold == IF thr = 0 THEN bufferLength ELSE thr
             adv == ReachedThreshold(BuffSize(b[t]), spaceReqd, threshold)
             t2 == IF adv THEN (t + 1) % numBuffers ELSE t
             c2 == IF adv THEN c + 1 ELSE c
             newSize == BuffSize(b[t2]) + spaceReqd
         IN  IF adv /\ NoRoomInNext(c2, spaceReqd, BuffSize(b[t2]))
             THEN [count |-> c2, tail |-> t2, buffs |-> b, overflowEvent |-> TRUE,
                   nextSample |-> ns]
             ELSE IF ExceedsCapacity(newSize)
             THEN [count |-> c2, tail |-> t2, buffs |-> b, overflowEvent |-> TRUE,
                   nextSample |-> ns]
             ELSE [count |-> c2, tail |-> t2,
                   buffs |-> [b EXCEPT ![t2] = @ \o BurstIds(ns, numSamples)],
                   overflowEvent |-> ovf, nextSample |-> ns + numSamples]

\* SoapySDRPlay::rx_callback (Streaming.cpp:98-247), entered from _rx_callback_A
\* with stream->mutex held
rx_callback(numSamples) ==
    /\ bursts < MaxBursts
    /\ UNCHANGED <<head, reset, decimationFactor, cachedBufferThreshold,
                   device_unavailable, nElems, currentHandle, currentBuff, pc,
                   reqElems, held, mode, resets, ret, lastDelivered, inOrder>>
    /\ IF device_unavailable
       THEN UNCHANGED <<count, tail, buffs, overflowEvent, nextSample, bursts, op>>
       ELSE LET r == RxApply(count, tail, buffs, overflowEvent, nextSample,
                             cachedBufferThreshold, numSamples)
            IN  /\ bursts' = bursts + 1
                /\ op' = "rx_callback"
                /\ count' = r.count
                /\ tail' = r.tail
                /\ buffs' = r.buffs
                /\ overflowEvent' = r.overflowEvent
                /\ nextSample' = r.nextSample

\* The ring of a stream just constructed
FreshRing ==
    [count |-> 0, tail |-> 0, buffs |-> [h \in Handles |-> <<>>],
     overflowEvent |-> FALSE, nextSample |-> 1]

\* The ring after callbacks of one sample each, with no consumer call in between,
\* have left one buffer being filled and all the others in flight: the state
\* RxApply itself produces from s.
RECURSIVE WarmRing(_)
WarmRing(s) ==
    IF s.count = numBuffers - 1
    THEN s
    ELSE WarmRing(RxApply(s.count, s.tail, s.buffs, s.overflowEvent, s.nextSample,
                          bufferLength, 1))

\* SoapySDRPlayStream::SoapySDRPlayStream (Streaming.cpp:350-375) and the device
\* constructor (DeviceControl.cpp:52-65); the behaviours start either on the fresh
\* stream or on the warmed-up one.
InitStream ==
    /\ \E s \in {FreshRing, WarmRing(FreshRing)} :
             /\ count = s.count /\ tail = s.tail /\ buffs = s.buffs
             /\ overflowEvent = s.overflowEvent /\ nextSample = s.nextSample
    /\ head = 0
    /\ reset = FALSE
    /\ decimationFactor = 1
    /\ cachedBufferThreshold = bufferLength
    /\ device_unavailable = FALSE
    /\ nElems = 0 /\ currentHandle = 0 /\ currentBuff = NullPtr
    /\ pc = "idle" /\ reqElems = 0 /\ held = {}
    /\ mode \in {"read", "direct"}
    /\ bursts = 0 /\ resets = 0
    /\ op = "init" /\ ret = Ret("NONE", 0)
    /\ lastDelivered = 0 /\ inOrder = TRUE

\* SoapySDRPlay::ev_callback, sdrplay_api_DeviceRemoved / MasterDllDisappeared
ev_callback_DeviceRemoved ==
    /\ ~device_unavailable
    /\ device_unavailable' = TRUE
    /\ op' = "ev_callback"
    /\ UNCHANGED <<count, head, tail, buffs, overflowEvent, reset, decimationFactor,
                   cachedBufferThreshold, nElems, currentHandle, currentBuff, pc,
                   reqElems, held, mode, bursts, nextSample, resets, ret,
                   lastDelivered, inOrder>>

(***************************************************************************)
(* Reset requests                                                          *)
(***************************************************************************)
\* SoapySDRPlay::setSampleRate, the decimation branch and the reset of the streams
setSampleRate(decM) ==
    /\ resets < MaxResets
    /\ decM # decimationFactor
    /\ resets' = resets + 1
    /\ decimationFactor' = decM
    /\ cachedBufferThreshold' = (IF decM > 0 THEN bufferLength \div decM ELSE bufferLength)
    /\ reset' = TRUE
    /\ op' = "setSampleRate"
    /\ UNCHANGED <<count, head, tail, buffs, overflowEvent, device_unavailable, nElems,
                   currentHandle, currentBuff, pc, reqElems, held, mode, bursts,
                   nextSample, ret, lastDelivered, inOrder>>

\* SoapySDRPlay::activateStream on a stream that is already streaming
activateStream ==
    /\ resets < MaxResets
    /\ resets' = resets + 1
    /\ reset' = TRUE
    /\ nElems' = 0
    /\ op' = "activateStream"
    /\ UNCHANGED <<count, head, tail, buffs, overflowEvent, decimationFactor,
                   cachedBufferThreshold, device_unavailable, currentHandle,
                   currentBuff, pc, reqElems, held, mode, bursts, nextSample, ret,
                   lastDelivered, inOrder>>

(***************************************************************************)
(* Consumer: acquireReadBuffer / releaseReadBuffer / readStream            *)
(***************************************************************************)
\* Streaming.cpp:831, the drain is due
NeedDrain == reset \/ overflowEvent

DrainReturnsOverflow_always(rst) == TRUE
\* Streaming.cpp:846-854, the drain returns SOAPY_SDR_OVERFLOW only without a reset
DrainReturnsOverflow(rst) == ~rst

ReleaseRefused_never(c) == FALSE
\* Streaming.cpp:920, releaseReadBuffer does nothing when count is already 0
ReleaseRefused(c) == c = 0

\* Streaming.cpp:901, head advances to the next buffer (AND with numBuffers - 1)
NextHead(h) == (h + 1) % numBuffers

\* The drain empties the ring: nothing stored earlier can be delivered later, so
\* the ids of the samples start again (ghost bookkeeping)
RestartIds ==
    /\ nextSample' = 1
    /\ lastDelivered' = 0

\* Hands the sample ids of seq to the consumer (ghost bookkeeping)
Deliver(seq) ==
    /\ inOrder' = (inOrder /\ OrderedAfter(lastDelivered, seq))
    /\ lastDelivered' = LastOf(lastDelivered, seq)

\* Streaming.cpp:881-908: the tail of acquireReadBuffer, run once count > 0 or the
\* device is gone. kind is "direct" (acquireReadBuffer called by the application)
\* or "read" (called by readStream, which then copies from currentBuff).
AcquireExtract(kind) ==
    IF device_unavailable
    THEN /\ ret' = Ret("NOT_SUPPORTED", 0)
         /\ pc' = "idle"
         /\ UNCHANGED <<head, held, nElems, currentHandle, currentBuff,
                        lastDelivered, inOrder>>
    ELSE LET handle == head
             n == BuffSize(buffs'[handle]) \div elementsPerSample
         IN  /\ head' = NextHead(head)
             /\ IF kind = "direct"
                THEN /\ held' = held \cup {handle}
                     /\ Deliver(buffs'[handle])
                     /\ ret' = Ret("OK", n)
                     /\ pc' = "idle"
                     /\ UNCHANGED <<nElems, currentHandle, currentBuff>>
                ELSE /\ currentHandle' = handle
                     /\ currentBuff' = <<handle, 0>>
                     /\ nElems' = n
                     /\ pc' = "rdCopy"
                     /\ UNCHANGED <<held, ret, lastDelivered, inOrder>>

\* Streaming.cpp:827-879: entry of acquireReadBuffer under stream->mutex, up to the
\* wait on stream->cond (which gives the mutex up)
AcquireEnter(kind) ==
    /\ UNCHANGED <<decimationFactor, cachedBufferThreshold, device_unavailable,
                   mode, bursts, resets>>
    /\ IF NeedDrain
       THEN /\ tail' = 0 /\ count' = 0
            /\ buffs' = [h \in Handles |-> <<>>]
            /\ overflowEvent' = FALSE
            /\ reset' = FALSE
            /\ RestartIds
            /\ IF DrainReturnsOverflow(reset)
               THEN /\ head' = 0
                    /\ ret' = Ret("OVERFLOW", 0)
                    /\ pc' = "idle"
                    /\ UNCHANGED <<held, nElems, currentHandle, currentBuff, inOrder>>
               ELSE IF device_unavailable
               THEN /\ head' = 0
                    /\ ret' = Ret("NOT_SUPPORTED", 0)
                    /\ pc' = "idle"
                    /\ UNCHANGED <<held, nElems, currentHandle, currentBuff, inOrder>>
               ELSE /\ head' = 0
                    /\ pc' = (IF kind = "direct" THEN "acqWait" ELSE "rdWait")
                    /\ UNCHANGED <<held, nElems, currentHandle, currentBuff, ret,
                                   inOrder>>
       ELSE /\ UNCHANGED <<tail, count, buffs, overflowEvent, reset, nextSample>>
            /\ IF count = 0 /\ ~device_unavailable
               THEN /\ pc' = (IF kind = "direct" THEN "acqWait" ELSE "rdWait")
                    /\ UNCHANGED <<head, held, nElems, currentHandle, currentBuff, ret,
                                   lastDelivered, inOrder>>
               ELSE AcquireExtract(kind)

\* Streaming.cpp:864-868: stream->cond wakes the waiter, its predicate holds
AcquireWake(kind) ==
    /\ count > 0 \/ device_unavailable
    /\ UNCHANGED <<tail, count, buffs, overflowEvent, reset, decimationFactor,
                   cachedBufferThreshold, device_unavailable, mode, bursts,
                   nextSample, resets>>
    /\ AcquireExtract(kind)

\* Streaming.cpp:869-878: the wait times out, the predicate is false
AcquireTimeout ==
    /\ count = 0 /\ ~device_unavailable
    /\ ret' = Ret("TIMEOUT", 0)
    /\ pc' = "idle"
    /\ UNCHANGED <<count, head, tail, buffs, overflowEvent, reset, decimationFactor,
                   cachedBufferThreshold, device_unavailable, nElems, currentHandle,
                   currentBuff, held, mode, bursts, nextSample, resets,
                   lastDelivered, inOrder>>

\* SoapySDRPlay::acquireReadBuffer called by the application
acquireReadBuffer ==
    /\ mode = "direct" /\ pc = "idle"
    /\ Cardinality(held) < MaxHeld
    /\ op' = "acquireReadBuffer"
    /\ reqElems' = reqElems
    /\ AcquireEnter("direct")

acquireReadBuffer_wake ==
    /\ pc = "acqWait"
    /\ op' = "acquireReadBuffer"
    /\ reqElems' = reqElems
    /\ AcquireWake("direct")

acquireReadBuffer_timeout ==
    /\ pc = "acqWait"
    /\ op' = "acquireReadBuffer"
    /\ reqElems' = reqElems
    /\ AcquireTimeout

\* Streaming.cpp:911-941: the effect of releaseReadBuffer on the ring
ReleaseEffect(handle) ==
    IF ReleaseRefused(count)
    THEN UNCHANGED <<count, buffs>>
    ELSE /\ buffs' = [buffs EXCEPT ![handle] = <<>>]
         /\ count' = count - 1

\* SoapySDRPlay::releaseReadBuffer called by the application for a handle it holds
releaseReadBuffer(handle) ==
    /\ mode = "direct" /\ pc = "idle"
    /\ handle \in held
    /\ held' = held \ {handle}
    /\ op' = "releaseReadBuffer"
    /\ ReleaseEffect(handle)
    /\ UNCHANGED <<head, tail, overflowEvent, reset, decimationFactor,
                   cachedBufferThreshold, device_unavailable, nElems, currentHandle,
                   currentBuff, pc, reqElems, mode, bursts, nextSample, resets, ret,
                   lastDelivered, inOrder>>

\* memcpy out of currentBuff, Streaming.cpp:727-737: k samples from sample offset
\* off; a slot past the end of the vector holds no sample of this stream (id 0)
CopyOut(b, off, k) == [i \in 1 .. k |-> IF off + i <= Len(b) THEN b[off + i] ELSE 0]

\* SoapySDRPlay::readStream, Streaming.cpp:700-715: take the read mutex and, when no
\* fragment is left, acquire the next buffer
readStream(numElems) ==
    /\ mode = "read" /\ pc = "idle"
    /\ op' = "readStream"
    /\ reqElems' = numElems
    /\ IF nElems = 0
       THEN AcquireEnter("read")
       ELSE /\ pc' = "rdCopy"
            /\ UNCHANGED <<count, head, tail, buffs, overflowEvent, reset,
                           decimationFactor, cachedBufferThreshold, device_unavailable,
                           nElems, currentHandle, currentBuff, held, mode, bursts,
                           nextSample, resets, ret, lastDelivered, inOrder>>

readStream_wake ==
    /\ pc = "rdWait"
    /\ op' = "readStream"
    /\ reqElems' = reqElems
    /\ AcquireWake("read")

readStream_timeout ==
    /\ pc = "rdWait"
    /\ op' = "readStream"
    /\ reqElems' = reqElems
    /\ AcquireTimeout

\* Streaming.cpp:717-761: copy the fragment out and move currentBuff on
readStream_copy ==
    /\ pc = "rdCopy"
    /\ op' = "readStream"
    /\ UNCHANGED <<count, head, tail, buffs, overflowEvent, reset, decimationFactor,
                   cachedBufferThreshold, device_unavailable, currentHandle, reqElems,
                   held, mode, bursts, nextSample, resets>>
    /\ LET returnedElems == Min(nElems, reqElems)
       IN  IF currentBuff = NullPtr
           THEN /\ ret' = Ret("STREAM_ERROR", 0)
                /\ pc' = "idle"
                /\ UNCHANGED <<nElems, currentBuff, lastDelivered, inOrder>>
           ELSE /\ Deliver(CopyOut(buffs[currentBuff[1]], currentBuff[2], returnedElems))
                /\ nElems' = nElems - returnedElems
                /\ currentBuff' = <<currentBuff[1], currentBuff[2] + returnedElems>>
                /\ ret' = Ret("OK", returnedElems)
                /\ pc' = (IF nElems - returnedElems # 0 THEN "idle" ELSE "rdRelease")

\* Streaming.cpp:762-766: the last fragment was copied, the buffer is released
readStream_release ==
    /\ pc = "rdRelease"
    /\ op' = "readStream"
    /\ pc' = "idle"
    /\ ReleaseEffect(currentHandle)
    /\ UNCHANGED <<head, tail, overflowEvent, reset, decimationFactor,
                   cachedBufferThreshold, device_unavailable, nElems, currentHandle,
                   currentBuff, reqElems, held, mode, bursts, nextSample, resets, ret,
                   lastDelivered, inOrder>>

(***************************************************************************)
(* Stream teardown against the vendor callback (Streaming.cpp)             *)
(*                                                                         *)
(* One application thread calls setupStream / activateStream / closeStream *)
(* (activateStream and closeStream hold _general_state_mutex from entry to *)
(* return, so calls of several application threads run one after the      *)
(* other); the vendor's thread runs _rx_callback_A.                        *)
(***************************************************************************)
\* stream objects the application may allocate
MaxStreams == 2
\* activateStream calls explored
MaxActivations == 2

nullptr == 0
StreamIds == 1 .. MaxStreams

VARIABLES
    streamsSlot,        \* _streams[0]: nullptr or a stream object
    streamsRefCount,    \* _streamsRefCount[0]
    streamActive,       \* streamActive: the vendor API is initialised, callbacks fire
    objs,               \* every stream object: "unallocated", "live" or "freed"
    appStreams,         \* SoapySDR::Stream pointers the application holds
    streamsMutex,       \* owner of _streams_mutex: "none", "cb" or "app"
    streamMutex,        \* owner of stream->mutex of every stream object
    cbPc,               \* position of the callback thread
    cbStream,           \* local `stream` of _rx_callback_A
    appPc,              \* position of the application thread
    appStream,          \* sdrplay_stream of the call in progress
    activeStreams,      \* local activeStreams of closeStream
    activations         \* activateStream calls made so far

tvars == <<streamsSlot, streamsRefCount, streamActive, objs, appStreams,
           streamsMutex, streamMutex, cbPc, cbStream, appPc, appStream,
           activeStreams, activations>>

\* DeviceControl.cpp:52-57: no stream, no reference, not streaming
InitTeardown ==
    /\ streamsSlot = nullptr /\ streamsRefCount = 0 /\ streamActive = FALSE
    /\ objs = [s \in StreamIds |-> "unallocated"]
    /\ appStreams = {}
    /\ streamsMutex = "none"
    /\ streamMutex = [s \in StreamIds |-> "none"]
    /\ cbPc = "idle" /\ cbStream = nullptr
    /\ appPc = "idle" /\ appStream = nullptr /\ activeStreams = 0
    /\ activations = 0

\* _rx_callback_A, Streaming.cpp:63-68: under _streams_mutex read _streams[0] and
\* return when it is null
rx_callback_A_enter ==
    /\ cbPc = "idle" /\ streamActive
    /\ streamsMutex = "none"
    /\ IF streamsSlot = nullptr
       THEN UNCHANGED <<streamsMutex, cbPc, cbStream>>
       ELSE /\ streamsMutex' = "cb"
            /\ cbStream' = streamsSlot
            /\ cbPc' = "lockStream"
    /\ UNCHANGED <<streamsSlot, streamsRefCount, streamActive, objs, appStreams,
                   streamMutex, appPc, appStream, activeStreams, activations>>

\* Streaming.cpp:69-70: take stream->mutex, then give _streams_mutex up
rx_callback_A_lockStream ==
    /\ cbPc = "lockStream"
    /\ streamMutex[cbStream] = "none"
    /\ streamMutex' = [streamMutex EXCEPT ![cbStream] = "cb"]
    /\ streamsMutex' = "none"
    /\ cbPc' = "inCallback"
    /\ UNCHANGED <<streamsSlot, streamsRefCount, streamActive, objs, appStreams,
                   cbStream, appPc, appStream, activeStreams, activations>>

\* Streaming.cpp:71: rx_callback works on the stream, then streamLock is destroyed
rx_callback_A_return ==
    /\ cbPc = "inCallback"
    /\ streamMutex' = [streamMutex EXCEPT ![cbStream] = "none"]
    /\ cbPc' = "idle"
    /\ cbStream' = nullptr
    /\ UNCHANGED <<streamsSlot, streamsRefCount, streamActive, objs, appStreams,
                   streamsMutex, appPc, appStream, activeStreams, activations>>

\* SoapySDRPlay::setupStream, Streaming.cpp:385-435: refused while streaming;
\* returns the stream of the slot, or a new stream when the slot is empty
setupStream ==
    /\ appPc = "idle" /\ ~streamActive
    /\ streamsMutex = "none"
    /\ IF streamsSlot # nullptr
       THEN /\ appStreams' = appStreams \cup {streamsSlot}
            /\ objs' = objs
       ELSE \E s \in StreamIds :
               /\ objs[s] = "unallocated"
               /\ \A r \in StreamIds : objs[r] = "unallocated" => s <= r
               /\ objs' = [objs EXCEPT ![s] = "live"]
               /\ appStreams' = appStreams \cup {s}
    /\ UNCHANGED <<streamsSlot, streamsRefCount, streamActive, streamsMutex,
                   streamMutex, cbPc, cbStream, appPc, appStream, activeStreams,
                   activations>>

\* SoapySDRPlay::activateStream, Streaming.cpp:552-565: publish the stream in the
\* slot and count the reference; done when the device is already streaming
activateStream_publish(s) ==
    /\ appPc = "idle" /\ s \in appStreams
    /\ activations < MaxActivations
    /\ streamsMutex = "none"
    /\ activations' = activations + 1
    /\ streamsSlot' = s
    /\ streamsRefCount' = streamsRefCount + 1
    /\ appStream' = s
    /\ appPc' = (IF streamActive THEN "idle" ELSE "activateInit")
    /\ UNCHANGED <<streamActive, objs, appStreams, streamsMutex, streamMutex, cbPc,
                   cbStream, activeStreams>>

\* Streaming.cpp:590-615: sdrplay_api_Init succeeded, the callbacks start
activateStream_initOk ==
    /\ appPc = "activateInit"
    /\ streamActive' = TRUE
    /\ appPc' = "idle"
    /\ UNCHANGED <<streamsSlot, streamsRefCount, objs, appStreams, streamsMutex,
                   streamMutex, cbPc, cbStream, appStream, activeStreams, activations>>

\* Streaming.cpp:594-612: sdrplay_api_Init failed, the reference is taken back
activateStream_initFailed ==
    /\ appPc = "activateInit"
    /\ streamsMutex = "none" /\ streamMutex[appStream] = "none"
    /\ streamsRefCount' = streamsRefCount - 1
    /\ streamsSlot' = (IF streamsRefCount - 1 = 0 THEN nullptr ELSE streamsSlot)
    /\ appPc' = "idle"
    /\ UNCHANGED <<streamActive, objs, appStreams, streamsMutex, streamMutex, cbPc,
                   cbStream, appStream, activeStreams, activations>>

\* SoapySDRPlay::closeStream, Streaming.cpp:440-462 and 504-527: under
\* _streams_mutex drop the reference and, with the last one, clear the slot. When
\* the stream is not deleted the call ends here, stopping the device when no
\* reference is left.
closeStream(s) ==
    /\ appPc = "idle" /\ s \in appStreams
    /\ streamsMutex = "none"
    /\ LET match == streamsSlot = s
           refs == IF match THEN streamsRefCount - 1 ELSE streamsRefCount
           deleteStream == match /\ refs = 0
       IN  /\ streamsRefCount' = refs
           /\ activeStreams' = refs
           /\ appStream' = s
           /\ IF deleteStream
              THEN /\ streamsSlot' = nullptr
                   /\ streamsMutex' = "app"
                   /\ appPc' = "closeLockStream"
                   /\ UNCHANGED streamActive
              ELSE /\ streamActive' = (IF refs = 0 THEN FALSE ELSE streamActive)
                   /\ UNCHANGED <<streamsSlot, streamsMutex, appPc>>
    /\ UNCHANGED <<objs, appStreams, streamMutex, cbPc, cbStream, activations>>

closeStream_lockStream_nowait ==
    /\ appPc = "closeLockStream"
    /\ streamsMutex' = "none"
    /\ appPc' = "closeUninit"
    /\ UNCHANGED <<streamsSlot, streamsRefCount, streamActive, objs, appStreams,
                   streamMutex, cbPc, cbStream, appStream, activeStreams, activations>>
\* Streaming.cpp:469-472: wait for stream->mutex (a callback in flight holds it),
\* give _streams_mutex up, notify the waiters, give stream->mutex up
closeStream_lockStream ==
    /\ appPc = "closeLockStream"
    /\ streamMutex[appStream] = "none"
    /\ streamsMutex' = "none"
    /\ appPc' = "closeUninit"
    /\ UNCHANGED <<streamsSlot, streamsRefCount, streamActive, objs, appStreams,
                   streamMutex, cbPc, cbStream, appStream, activeStreams, activations>>

\* Streaming.cpp:478-499: pass readStreamMutex and stop the device when no
\* reference is left
closeStream_uninit ==
    /\ appPc = "closeUninit"
    /\ streamActive' = (IF activeStreams = 0 THEN FALSE ELSE streamActive)
    /\ appPc' = "closeDelete"
    /\ UNCHANGED <<streamsSlot, streamsRefCount, objs, appStreams, streamsMutex,
                   streamMutex, cbPc, cbStream, appStream, activeStreams, activations>>

\* Streaming.cpp:501: delete sdrplay_stream
closeStream_delete ==
    /\ appPc = "closeDelete"
    /\ objs' = [objs EXCEPT ![appStream] = "freed"]
    /\ appStreams' = appStreams \ {appStream}
    /\ appPc' = "idle"
    /\ UNCHANGED <<streamsSlot, streamsRefCount, streamActive, streamsMutex,
                   streamMutex, cbPc, cbStream, appStream, activeStreams, activations>>

(***************************************************************************)
(* Shared ring between the worker (producer) and the proxy (consumer):     *)
(* RingBuffer.cpp, SoapySDRPlayProxy.cpp, SoapySDRPlayWorker.cpp           *)
(***************************************************************************)
\* numSamples_ of the ring (DEFAULT_RINGBUF_SAMPLES = 32M samples) scaled down
RingSamples == 3
\* write calls of the worker explored
MaxWrites == 3
\* worker restarts explored
MaxRestarts == 1

\* SoapySDRPlayProxyStream::MAX_STALE_READS, SoapySDRPlayProxy.hpp:184
MAX_STALE_READS == 10

\* the worker may offer one sample more than the whole ring holds
MaxRequest == RingSamples + 1
Slots == 0 .. (RingSamples - 1)

VARIABLES
    writeIdx,           \* header_->writeIdx
    readIdx,            \* header_->readIdx
    sampleCount,        \* header_->sampleCount
    overflowCount,      \* header_->overflowCount
    data,               \* data_: Slots -> sample id (0: never written); the id of a
                        \* sample is its number among the samples the ring stored
    lastReadIdx,        \* lastReadIdx_ of the consumer's SharedRingBuffer object
    wPc,                \* position of the worker inside write: "idle" or "copy"
    wReq,               \* samples of the write call in progress (ids)
    wWriteIdx,          \* local writeIdx of write
    wCount,             \* local count of write, after truncation
    wRet,               \* return value of the last write
    lastSeenWriteIdx,   \* proxyStream->lastSeenWriteIdx
    staleWriteCount,    \* proxyStream->staleWriteCount
    ringGen,            \* how often the ring was created again
    writes,             \* write calls made so far
    rPc,                \* position of the proxy inside read: "idle" or "copy"
    rCount,             \* local count of read
    rHeld,              \* samples of the chunk acquireReadBuffer handed out
    rop                 \* the ring operation that made the last step

rvars == <<writeIdx, readIdx, sampleCount, overflowCount, data, lastReadIdx, wPc,
           wReq, wWriteIdx, wCount, wRet, lastSeenWriteIdx, staleWriteCount,
           ringGen, writes, rPc, rCount, rHeld, rop>>

\* SharedRingBuffer::create (RingBuffer.cpp:94-106) and the constructor
\* (RingBuffer.cpp:40-52): header zeroed, lastReadIdx_ zero
InitRing ==
    /\ writeIdx = 0 /\ readIdx = 0 /\ sampleCount = 0 /\ overflowCount = 0
    /\ data = [p \in Slots |-> 0]
    /\ lastReadIdx = 0
    /\ wPc = "idle" /\ wReq = <<>> /\ wWriteIdx = 0 /\ wCount = 0 /\ wRet = 0
    /\ lastSeenWriteIdx = 0 /\ staleWriteCount = 0
    /\ ringGen = 0 /\ writes = 0
    /\ rPc = "idle" /\ rCount = 0 /\ rHeld = 0
    /\ rop = "create"

Available_whole(w, r) == RingSamples
\* RingBuffer.cpp:215-216, free space seen by the producer
Available(w, r) == RingSamples - (w - r)

WriteCount_untruncated(cnt, available) == cnt
\* RingBuffer.cpp:218-223, the request is cut down to the free space
WriteCount(cnt, available) == IF cnt > available THEN available ELSE cnt

recordOverflow_twice(ovf) == ovf + 2
\* SharedRingBuffer::recordOverflow, RingBuffer.cpp:307-311
recordOverflow(ovf) == ovf + 1

NewWriteIdx_wrapped(w, cnt) == (w + cnt) % RingSamples
\* RingBuffer.cpp:244, the index stored after the copy
NewWriteIdx(w, cnt) == w + cnt

\* SharedRingBuffer::write, RingBuffer.cpp:211-228, called by the streaming loop
\* of the worker (SoapySDRPlayWorker.cpp:576): load the indices, record the
\* overflow and truncate, return 0 when nothing fits
write_begin(k) ==
    /\ wPc = "idle" /\ writes < MaxWrites
    /\ writes' = writes + 1
    /\ rop' = "write_begin"
    /\ wReq' = [i \in 1 .. k |-> sampleCount + i]
    /\ wWriteIdx' = writeIdx
    /\ LET available == Available(writeIdx, readIdx)
           cnt == WriteCount(k, available)
       IN  /\ overflowCount' = (IF k > available THEN recordOverflow(overflowCount)
                                                  ELSE overflowCount)
           /\ wCount' = cnt
           /\ IF cnt = 0
              THEN wPc' = "idle" /\ wRet' = 0
              ELSE wPc' = "copy" /\ wRet' = wRet
    /\ UNCHANGED <<writeIdx, readIdx, sampleCount, data, lastReadIdx, lastSeenWriteIdx,
                   staleWriteCount, ringGen, rPc, rCount, rHeld>>

\* RingBuffer.cpp:231-253: copy the samples in (wrapping around), store writeIdx,
\* add to sampleCount, return count
write_commit ==
    /\ wPc = "copy"
    /\ rop' = "write_commit"
    /\ data' = [p \in Slots |->
                  IF \E i \in 1 .. wCount : (wWriteIdx + i - 1) % RingSamples = p
                  THEN wReq[CHOOSE i \in 1 .. wCount : (wWriteIdx + i - 1) % RingSamples = p]
                  ELSE data[p]]
    /\ writeIdx' = NewWriteIdx(wWriteIdx, wCount)
    /\ sampleCount' = sampleCount + wCount
    /\ wRet' = wCount
    /\ wPc' = "idle"
    /\ UNCHANGED <<readIdx, overflowCount, lastReadIdx, wReq, wWriteIdx, wCount,
                   lastSeenWriteIdx, staleWriteCount, ringGen, writes, rPc, rCount,
                   rHeld>>

\* SharedRingBuffer::getReadPtr, RingBuffer.cpp:381-394: the contiguous chunk
\* between lastReadIdx_ and writeIdx, up to the end of the buffer
ReadPtrAvailable(w, last) ==
    LET avail == w - last
        readPos == last % RingSamples
    IN  IF avail = 0 THEN 0 ELSE Min(avail, RingSamples - readPos)

\* SoapySDRPlayProxy::restartWorker, SoapySDRPlayProxy.cpp:130-200, and the lines
\* of readStream after it (SoapySDRPlayProxy.cpp:517-520): the worker is
\* terminated and the ring is destroyed and created again
restartWorker ==
    /\ ringGen' = ringGen + 1
    /\ writeIdx' = 0 /\ readIdx' = 0 /\ sampleCount' = 0 /\ overflowCount' = 0
    /\ data' = [p \in Slots |-> 0]
    /\ lastReadIdx' = 0
    /\ wPc' = "idle" /\ wReq' = <<>> /\ wWriteIdx' = 0 /\ wCount' = 0 /\ wRet' = 0
    /\ staleWriteCount' = 0
    /\ lastSeenWriteIdx' = 0

\* SoapySDRPlayProxy::readStream (CF32), SoapySDRPlayProxy.cpp:498-530, with the
\* first half of SharedRingBuffer::read, RingBuffer.cpp:315-338: load writeIdx and
\* start copying count samples out, or give up and do the stall bookkeeping
proxy_readStream(numElems) ==
    /\ rPc = "idle" /\ rHeld = 0
    /\ rop' = "readStream"
    /\ UNCHANGED <<writes, rHeld>>
    /\ LET avail == writeIdx - lastReadIdx
           cnt == Min(avail, numElems)
       IN  IF avail > 0
           THEN /\ rPc' = "copy" /\ rCount' = cnt
                /\ UNCHANGED <<writeIdx, readIdx, sampleCount, overflowCount, data,
                               lastReadIdx, wPc, wReq, wWriteIdx, wCount, wRet,
                               lastSeenWriteIdx, staleWriteCount, ringGen>>
           ELSE /\ UNCHANGED <<rPc, rCount>>
                /\ IF writeIdx = lastSeenWriteIdx
                   THEN IF staleWriteCount + 1 >= MAX_STALE_READS
                        THEN ringGen < MaxRestarts /\ restartWorker
                        ELSE /\ staleWriteCount' = staleWriteCount + 1
                             /\ UNCHANGED <<writeIdx, readIdx, sampleCount,
                                            overflowCount, data, lastReadIdx, wPc, wReq,
                                            wWriteIdx, wCount, wRet, lastSeenWriteIdx,
                                            ringGen>>
                   ELSE /\ lastSeenWriteIdx' = writeIdx
                        /\ staleWriteCount' = 0
                        /\ UNCHANGED <<writeIdx, readIdx, sampleCount, overflowCount,
                                       data, lastReadIdx, wPc, wReq, wWriteIdx, wCount,
                                       wRet, ringGen>>

\* the second half of SharedRingBuffer::read, RingBuffer.cpp:340-351, and of
\* readStream, SoapySDRPlayProxy.cpp:532-543: the samples are copied, readIdx is
\* stored and the stale counter is cleared
proxy_readStream_copied ==
    /\ rPc = "copy"
    /\ rop' = "readStream_copied"
    /\ lastReadIdx' = lastReadIdx + rCount
    /\ readIdx' = lastReadIdx + rCount
    /\ staleWriteCount' = 0
    /\ rPc' = "idle"
    /\ UNCHANGED <<writeIdx, sampleCount, overflowCount, data, wPc, wReq, wWriteIdx,
                   wCount, wRet, lastSeenWriteIdx, ringGen, writes, rCount, rHeld>>

\* SoapySDRPlayProxy::acquireReadBuffer, SoapySDRPlayProxy.cpp:558-590: the chunk
\* getReadPtr offers, or a timeout when there is none
proxy_acquireReadBuffer ==
    /\ rPc = "idle"
    /\ rop' = "acquireReadBuffer"
    /\ rHeld' = ReadPtrAvailable(writeIdx, lastReadIdx)
    /\ UNCHANGED <<writeIdx, readIdx, sampleCount, overflowCount, data, lastReadIdx,
                   wPc, wReq, wWriteIdx, wCount, wRet, lastSeenWriteIdx,
                   staleWriteCount, ringGen, writes, rPc, rCount>>

\* SoapySDRPlayProxy::releaseReadBuffer, SoapySDRPlayProxy.cpp:592-602, with
\* SharedRingBuffer::advanceRead, RingBuffer.cpp:397-401
proxy_releaseReadBuffer ==
    /\ rPc = "idle"
    /\ rop' = "releaseReadBuffer"
    /\ rHeld' = 0
    /\ LET available == ReadPtrAvailable(writeIdx, lastReadIdx)
       IN  /\ lastReadIdx' = lastReadIdx + available
           /\ readIdx' = lastReadIdx + available
    /\ UNCHANGED <<writeIdx, sampleCount, overflowCount, data, wPc, wReq, wWriteIdx,
                   wCount, wRet, lastSeenWriteIdx, staleWriteCount, ringGen,
                   writes, rPc, rCount>>

\* SharedRingBuffer::reattach, RingBuffer.cpp:169-205: the same named region is
\* mapped again; the header in it and lastReadIdx_ stay as they are
reattach ==
    /\ rPc = "idle" /\ rHeld = 0
    /\ rop' = "reattach"
    /\ UNCHANGED <<writeIdx, readIdx, sampleCount, overflowCount, data, lastReadIdx,
                   wPc, wReq, wWriteIdx, wCount, wRet, lastSeenWriteIdx,
                   staleWriteCount, ringGen, writes, rPc, rCount, rHeld>>

(***************************************************************************)
(* Cross-process gate: SDRplayLock.cpp, SDRplayLock.hpp, and the static    *)
(* g_proxyDeviceOpenLock of SoapySDRPlayProxy.cpp                          *)
(***************************************************************************)
\* guards one thread nests
MaxDepth == 2
\* SDRplayLock::DEFAULT_COOLDOWN_MS (SDRplayLock.hpp:47) in ticks of the clock
CooldownTicks == 1

\* host processes that share the lock file, and their threads: every process has
\* the one SDRplayLock object g_proxyDeviceOpenLock (SoapySDRPlayProxy.cpp:37)
GateProcs == {"A", "B"}
GateThreadsAll == {"a1", "a2", "b1"}
ProcOf(t) == IF t = "b1" THEN "B" ELSE "A"

VARIABLES
    gThreads,           \* the threads that call setupStream
    flockOwner,         \* whose open file holds the flock on the lock file
    lockFd,             \* lockFd_ of each SDRplayLock: -1 or an open descriptor
    held_,               \* held_ of each SDRplayLock
    localMutex,         \* localMutex_ of each SDRplayLock: the thread inside
    sinceMtime,         \* time since the mtime of the lock file, up to the cooldown
    gPc,                \* per thread: "out", or "waiting" inside acquire
    gCooldown,          \* per thread: cooldownMs of the acquire in progress
    guards,             \* per thread: live SDRplayLockGuard objects, acquired_ each
    gop                 \* the gate operation that made the last step

gvars == <<gThreads, flockOwner, lockFd, held_, localMutex, sinceMtime, gPc,
           gCooldown, guards, gop>>

\* SDRplayLock::SDRplayLock, SDRplayLock.cpp:40-45
InitGateWith(threads) ==
    /\ gThreads = threads
    /\ flockOwner = "none"
    /\ lockFd = [p \in GateProcs |-> -1]
    /\ held_ = [p \in GateProcs |-> FALSE]
    /\ localMutex = [p \in GateProcs |-> "none"]
    /\ sinceMtime = CooldownTicks
    /\ gPc = [t \in GateThreadsAll |-> "out"]
    /\ gCooldown = [t \in GateThreadsAll |-> 0]
    /\ guards = [t \in GateThreadsAll |-> 0]
    /\ gop = <<"init", "none">>

\* the threads in use: two threads of one process and one of another, or one
\* thread in each process
GateThreadSets == {GateThreadsAll, {"a1", "b1"}}

InitGate == \E threads \in GateThreadSets : InitGateWith(threads)

\* SDRplayLock.cpp:115-128: with a cooldown the caller sleeps until that much
\* time has passed since the mtime of the lock file
AfterCooldown(since, cooldownMs) == IF since < cooldownMs THEN cooldownMs ELSE since

\* SDRplayLock.cpp:84-90 and 115-132: flock succeeded, cooldown, held_ = true
LockAcquired(t, cooldownMs) ==
    /\ flockOwner' = ProcOf(t)
    /\ sinceMtime' = AfterCooldown(sinceMtime, cooldownMs)
    /\ held_' = [held_ EXCEPT ![ProcOf(t)] = TRUE]
    /\ guards' = [guards EXCEPT ![t] = @ + 1]

\* SDRplayLock.cpp:63-67, "Already held_ by this instance"
AlreadyHeld(h) == h

\* SDRplayLockGuard::SDRplayLockGuard, SDRplayLock.cpp:188-197, with
\* SDRplayLock::acquire, SDRplayLock.cpp:59-133, up to the first flock
SDRplayLockGuard(t, cooldownMs) ==
    /\ t \in gThreads /\ gPc[t] = "out" /\ guards[t] < MaxDepth
    /\ localMutex[ProcOf(t)] = "none"
    /\ gop' = <<"acquire", t>>
    /\ UNCHANGED gThreads
    /\ IF AlreadyHeld(held_[ProcOf(t)])
       THEN /\ guards' = [guards EXCEPT ![t] = @ + 1]
            /\ UNCHANGED <<flockOwner, lockFd, held_, localMutex, sinceMtime, gPc,
                           gCooldown>>
       ELSE /\ lockFd' = [lockFd EXCEPT ![ProcOf(t)] = 3]
            /\ IF flockOwner = "none"
               THEN /\ LockAcquired(t, cooldownMs)
                    /\ UNCHANGED <<localMutex, gPc, gCooldown>>
               ELSE /\ gPc' = [gPc EXCEPT ![t] = "waiting"]
                    /\ gCooldown' = [gCooldown EXCEPT ![t] = cooldownMs]
                    /\ localMutex' = [localMutex EXCEPT ![ProcOf(t)] = t]
                    /\ UNCHANGED <<flockOwner, held_, sinceMtime, guards>>

\* SDRplayLock.cpp:84-90, a later round of the loop finds the file unlocked
acquire_retry(t) ==
    /\ t \in gThreads /\ gPc[t] = "waiting" /\ flockOwner = "none"
    /\ gop' = <<"acquire", t>>
    /\ LockAcquired(t, gCooldown[t])
    /\ gPc' = [gPc EXCEPT ![t] = "out"]
    /\ localMutex' = [localMutex EXCEPT ![ProcOf(t)] = "none"]
    /\ UNCHANGED <<gThreads, lockFd, gCooldown>>

\* SDRplayLock.cpp:99-109 and 192-195: the timeout passes, acquire returns false
\* and the guard throws
acquire_timeout(t) ==
    /\ t \in gThreads /\ gPc[t] = "waiting" /\ flockOwner # "none"
    /\ gop' = <<"timeout", t>>
    /\ gPc' = [gPc EXCEPT ![t] = "out"]
    /\ localMutex' = [localMutex EXCEPT ![ProcOf(t)] = "none"]
    /\ UNCHANGED <<gThreads, flockOwner, lockFd, held_, sinceMtime, gCooldown, guards>>

\* SDRplayLockGuard::~SDRplayLockGuard, SDRplayLock.cpp:199-205, with
\* SDRplayLock::release, SDRplayLock.cpp:135-155, and updateTimestamp
SDRplayLockGuard_dtor(t) ==
    /\ t \in gThreads /\ gPc[t] = "out" /\ guards[t] > 0
    /\ localMutex[ProcOf(t)] = "none"
    /\ gop' = <<"release", t>>
    /\ guards' = [guards EXCEPT ![t] = @ - 1]
    /\ IF held_[ProcOf(t)]
       THEN /\ sinceMtime' = 0
            /\ flockOwner' = "none"
            /\ held_' = [held_ EXCEPT ![ProcOf(t)] = FALSE]
       ELSE UNCHANGED <<sinceMtime, flockOwner, held_>>
    /\ UNCHANGED <<gThreads, lockFd, localMutex, gPc, gCooldown>>

\* time passes (the mtime of the lock file gets older)
clock_tick ==
    /\ sinceMtime < CooldownTicks
    /\ sinceMtime' = sinceMtime + 1
    /\ gop' = <<"tick", "none">>
    /\ UNCHANGED <<gThreads, flockOwner, lockFd, held_, localMutex, gPc, gCooldown,
                   guards>>

(***************************************************************************)
(* Vendor-API gate and the calls into the vendor library: SoapySDRPlay.hpp *)
(* (SdrplayApiLockGuard), SampleRate.cpp, SettingsAPI.cpp,                 *)
(* DeviceControl.cpp, Streaming.cpp, Antenna.cpp                           *)
(***************************************************************************)
\* host threads that call into one device session
ApiThreads == {"h1", "h2"}

\* the calls the vendor library offers that mutate or inspect device state
GatedCalls == {"Update", "Init", "Uninit", "SelectDevice", "ReleaseDevice",
               "GetDeviceParams", "SwapRspDuoActiveTuner"}

\* what an operation of the session does with gate and vendor library, in the
\* order of its code: "lock" / "unlock" are construction and destruction of an
\* SdrplayApiLockGuard, "update_lock" / "update_unlock" those of the unique_lock
\* on api_update_mutex, every other step is the vendor call of that name

\* SoapySDRPlay::executeApiUpdate, SampleRate.cpp:323-363
Steps_executeApiUpdate == <<"update_lock", "lock", "Update", "unlock", "update_unlock">>
\* SoapySDRPlay::writeSetting, key "iqcorr_ctrl" while streaming, SettingsAPI.cpp:519-532
Steps_writeSetting == <<"Update">>
\* SoapySDRPlay::releaseDevice, DeviceControl.cpp:391-416
Steps_releaseDevice(sel) == IF sel THEN <<"ReleaseDevice">> ELSE <<>>
\* SoapySDRPlay::selectDevice, DeviceControl.cpp:218-388
Steps_selectDevice(sel) ==
    (IF sel THEN <<"ReleaseDevice">> ELSE <<>>)
        \o <<"lock", "GetDevices", "SelectDevice", "unlock", "DebugEnable",
             "GetDeviceParams">>
\* SoapySDRPlay::activateStream, Streaming.cpp:567-592
Steps_activateStream == <<"lock", "DebugEnable", "unlock", "lock", "Init", "unlock">>
\* SoapySDRPlay::closeStream, Streaming.cpp:487-492
Steps_closeStream == <<"lock", "Uninit", "unlock">>
\* SoapySDRPlay::setAntenna, tuner swap while streaming, Antenna.cpp:478-484
Steps_setAntenna == <<"lock", "SwapRspDuoActiveTuner", "unlock">>

ApiOps == {"executeApiUpdate", "writeSetting", "releaseDevice", "selectDevice",
           "activateStream", "closeStream", "setAntenna"}

StepsOf(o, sel) ==
    CASE o = "executeApiUpdate" -> Steps_executeApiUpdate
      [] o = "writeSetting" -> Steps_writeSetting
      [] o = "releaseDevice" -> Steps_releaseDevice(sel)
      [] o = "selectDevice" -> Steps_selectDevice(sel)
      [] o = "activateStream" -> Steps_activateStream
      [] o = "closeStream" -> Steps_closeStream
      [] o = "setAntenna" -> Steps_setAntenna

VARIABLES
    lockDepth,          \* SdrplayApiLockGuard::lockDepth, thread_local
    acquiredGuards,     \* per thread: `acquired` of its live guards, innermost last
    deviceApiLock,      \* owner of the lock of sdrplay_api_LockDeviceApi
    api_update_mutex,   \* owner of SoapySDRPlay::api_update_mutex
    selectedRSPDevices, \* whether the device is in the map of selected devices
    apiOp,              \* per thread: the operation it runs, or "none"
    apiSteps,           \* per thread: the steps of that operation
    apiPc,              \* per thread: the next step
    inCall              \* per thread: the vendor call it is inside, or "none"

avars == <<lockDepth, acquiredGuards, deviceApiLock, api_update_mutex,
           selectedRSPDevices, apiOp, apiSteps, apiPc, inCall>>

\* SoapySDRPlay::SoapySDRPlay, DeviceControl.cpp:48-107: the constructor has
\* selected the device; no thread is inside the driver
InitApi ==
    /\ lockDepth = [t \in ApiThreads |-> 0]
    /\ acquiredGuards = [t \in ApiThreads |-> <<>>]
    /\ deviceApiLock = "none"
    /\ api_update_mutex = "none"
    /\ selectedRSPDevices = TRUE
    /\ apiOp = [t \in ApiThreads |-> "none"]
    /\ apiSteps = [t \in ApiThreads |-> <<>>]
    /\ apiPc = [t \in ApiThreads |-> 1]
    /\ inCall = [t \in ApiThreads |-> "none"]

\* guards one thread nests in the scopes below
MaxNesting == 2
RECURSIVE Steps_scope(_)
\* a block that holds an SdrplayApiLockGuard, calls the vendor library and has
\* n - 1 such blocks nested in it: the guards are destroyed in the reverse order
\* of their construction, as the scopes of C++ end
Steps_scope(n) ==
    IF n = 0 THEN <<>>
    ELSE <<"lock">> \o Steps_scope(n - 1) \o <<"Update", "unlock">>

\* the step thread t is about to take
ApiStep(t) ==
    IF apiOp[t] # "none" /\ apiPc[t] <= Len(apiSteps[t])
    THEN apiSteps[t][apiPc[t]] ELSE "none"

\* the operation goes on to its next step, or returns after the last
ApiAdvance(t) ==
    /\ apiPc' = [apiPc EXCEPT ![t] = IF @ = Len(apiSteps[t]) THEN 1 ELSE @ + 1]
    /\ apiOp' = [apiOp EXCEPT ![t] = IF apiPc[t] = Len(apiSteps[t]) THEN "none" ELSE @]

\* a thread enters an operation of the session
api_enter(t, o) ==
    /\ apiOp[t] = "none"
    /\ LET steps == StepsOf(o, selectedRSPDevices)
       IN  /\ apiSteps' = [apiSteps EXCEPT ![t] = steps]
           /\ apiOp' = [apiOp EXCEPT ![t] = IF steps = <<>> THEN "none" ELSE o]
    /\ UNCHANGED <<lockDepth, acquiredGuards, deviceApiLock, api_update_mutex,
                   selectedRSPDevices, apiPc, inCall>>

\* a thread enters a block with n nested guards
api_enter_scope(t, n) ==
    /\ apiOp[t] = "none"
    /\ apiSteps' = [apiSteps EXCEPT ![t] = Steps_scope(n)]
    /\ apiOp' = [apiOp EXCEPT ![t] = "scope"]
    /\ UNCHANGED <<lockDepth, acquiredGuards, deviceApiLock, api_update_mutex,
                   selectedRSPDevices, apiPc, inCall>>

\* SdrplayApiLockGuard::SdrplayApiLockGuard, SoapySDRPlay.hpp:67-76
SdrplayApiLockGuard_ctor(t) ==
    /\ ApiStep(t) = "lock"
    /\ lockDepth[t] = 0 => deviceApiLock = "none"
    /\ lockDepth' = [lockDepth EXCEPT ![t] = @ + 1]
    /\ acquiredGuards' = [acquiredGuards EXCEPT ![t] = Append(@, lockDepth[t] = 0)]
    /\ deviceApiLock' = (IF lockDepth[t] = 0 THEN t ELSE deviceApiLock)
    /\ ApiAdvance(t)
    /\ UNCHANGED <<api_update_mutex, selectedRSPDevices, apiSteps, inCall>>

ReleasesLock_always(depth, acquired) == TRUE
\* SoapySDRPlay.hpp:83: the guard that takes the depth back to 0 and had acquired
\* the lock releases it
ReleasesLock(depth, acquired) == depth = 0 /\ acquired

\* SdrplayApiLockGuard::~SdrplayApiLockGuard, SoapySDRPlay.hpp:77-88
SdrplayApiLockGuard_dtor(t) ==
    /\ ApiStep(t) = "unlock"
    /\ LET acquired == acquiredGuards[t][Len(acquiredGuards[t])]
       IN  IF lockDepth[t] = 0
           THEN UNCHANGED <<lockDepth, deviceApiLock>>
           ELSE /\ lockDepth' = [lockDepth EXCEPT ![t] = @ - 1]
                /\ deviceApiLock' = (IF ReleasesLock(lockDepth[t] - 1, acquired)
                                     THEN "none" ELSE deviceApiLock)
    /\ acquiredGuards' = [acquiredGuards EXCEPT ![t] = SubSeq(@, 1, Len(@) - 1)]
    /\ ApiAdvance(t)
    /\ UNCHANGED <<api_update_mutex, selectedRSPDevices, apiSteps, inCall>>

\* SampleRate.cpp:330-336: try_lock_for on api_update_mutex; when another update
\* is in progress for the whole 50 ms the update is skipped
api_update_try_lock(t) ==
    /\ ApiStep(t) = "update_lock"
    /\ IF api_update_mutex = "none"
       THEN /\ api_update_mutex' = t
            /\ ApiAdvance(t)
       ELSE /\ apiOp' = [apiOp EXCEPT ![t] = "none"]
            /\ apiPc' = [apiPc EXCEPT ![t] = 1]
            /\ UNCHANGED api_update_mutex
    /\ UNCHANGED <<lockDepth, acquiredGuards, deviceApiLock, selectedRSPDevices,
                   apiSteps, inCall>>

\* SampleRate.cpp:362-363: the unique_lock on api_update_mutex goes out of scope
api_update_unlock(t) ==
    /\ ApiStep(t) = "update_unlock"
    /\ api_update_mutex' = "none"
    /\ ApiAdvance(t)
    /\ UNCHANGED <<lockDepth, acquiredGuards, deviceApiLock, selectedRSPDevices,
                   apiSteps, inCall>>

\* the thread enters the vendor call of its step; selectDevice and releaseDevice
\* erase the device from the map before ReleaseDevice (DeviceControl.cpp:228, 404)
vendor_call(t) ==
    /\ ApiStep(t) \notin {"none", "lock", "unlock", "update_lock", "update_unlock"}
    /\ inCall[t] = "none"
    /\ inCall' = [inCall EXCEPT ![t] = ApiStep(t)]
    /\ selectedRSPDevices' = (IF ApiStep(t) = "ReleaseDevice" THEN FALSE
                                                             ELSE selectedRSPDevices)
    /\ UNCHANGED <<lockDepth, acquiredGuards, deviceApiLock, api_update_mutex, apiOp,
                   apiSteps, apiPc>>

\* the vendor call returns; after SelectDevice the device is stored in the map
\* (DeviceControl.cpp:360-363)
vendor_return(t) ==
    /\ inCall[t] # "none"
    /\ inCall' = [inCall EXCEPT ![t] = "none"]
    /\ selectedRSPDevices' = (IF inCall[t] = "SelectDevice" THEN TRUE
                                                            ELSE selectedRSPDevices)
    /\ ApiAdvance(t)
    /\ UNCHANGED <<lockDepth, acquiredGuards, deviceApiLock, api_update_mutex,
                   apiSteps>>

(***************************************************************************)
(* Proxy and worker: SoapySDRPlayProxy.cpp, SoapySDRPlayWorker.cpp         *)
(***************************************************************************)
\* calls the host makes on the proxy device
MaxHostOps == 3
\* status messages waiting in the status pipe when the streaming thread adds one
MaxQueue == 1

\* IPCMessageType, IPCPipe.hpp:35-59
Setters == {"SetFrequency", "SetSampleRate", "SetGain", "SetAgc", "SetAntenna",
            "SetBandwidth"}
\* how a handler of the worker ends: without exception, with the cross-process
\* lock or the device not obtained, or with a setting refused by the device
Outcomes == {"ok", "lockFailed", "applyFailed"}

VARIABLES
    proxyAlive,         \* the proxy object exists (not yet destroyed)
    workerReady_,       \* SoapySDRPlayProxy::workerReady_
    streamActive_,      \* SoapySDRPlayProxy::streamActive_
    workerPid_,         \* SoapySDRPlayProxy::workerPid_: -1 or the pid of the worker
    pipes_,             \* SoapySDRPlayProxy::pipes_ is set
    streamOpen,         \* a SoapySDRPlayProxyStream handed out by setupStream exists
    pPc,                \* proxy: "idle", "ready" (in waitForReady), "status" (in
                        \* waitForStatus) or "terminate" (destructor before terminate)
    pOp,                \* proxy: the operation in progress, or the last one when idle
    pExpect,            \* proxy: expectedType of waitForStatus
    wasStreaming,       \* local of restartWorker
    pOut,               \* what the last operation gave the host
    hostOps,            \* calls of the host so far
    cmdQ,               \* messages in the pipe parent to child
    statQ,              \* messages in the pipe child to parent
    wRun,               \* worker process: "none", "spawned", "loop", "exited", "killed"
    running_,           \* SoapySDRPlayWorker::running_
    device_,            \* SoapySDRPlayWorker::device_ is set
    streaming_,         \* SoapySDRPlayWorker::streaming_
    flags,              \* header_->flags of the ring
    handled,            \* how many commands this worker has handled, the last of
                        \* them, device_ and streaming_ before it, the statuses
                        \* it sent for it
    shutdownSent        \* the proxy has written Shutdown to this worker

\* the members of the proxy and the position of the host thread in it
hostVars == <<proxyAlive, workerReady_, streamActive_, workerPid_, pipes_, streamOpen,
              pPc, pOp, pExpect, wasStreaming, pOut, hostOps>>
\* the members of the worker and the flags it keeps in the ring
workerVars == <<wRun, running_, device_, streaming_, flags, handled>>

pvars == <<hostVars, cmdQ, statQ, workerVars, shutdownSent>>

\* SoapySDRPlayProxy::SoapySDRPlayProxy, SoapySDRPlayProxy.cpp:39-47, and the
\* member initialisers of SoapySDRPlayProxy.hpp:150-170
InitProxy ==
    /\ proxyAlive = TRUE
    /\ workerReady_ = FALSE /\ streamActive_ = FALSE /\ workerPid_ = -1
    /\ pipes_ = FALSE /\ streamOpen = FALSE
    /\ pPc = "idle" /\ pOp = "none" /\ pExpect = "none" /\ wasStreaming = FALSE
    /\ pOut = "none" /\ hostOps = 0
    /\ cmdQ = <<>> /\ statQ = <<>>
    /\ wRun = "none" /\ running_ = FALSE /\ device_ = FALSE /\ streaming_ = FALSE
    /\ flags = {}
    /\ handled = [n |-> 0, cmd |-> "none", dev |-> FALSE, strm |-> FALSE,
                 replies |-> <<>>]
    /\ shutdownSent = FALSE

\* how the worker process starts: the ring opens, or it does not and sendError
\* reports it, or sendError ends the process when it sets the flag through the
\* null ringBuffer_ (SoapySDRPlayWorker.cpp:548)
Starts == {"ready", "error", "crash"}

\* SoapySDRPlayWorker::run, SoapySDRPlayWorker.cpp:146-160: Ready is sent and the
\* command loop begins; without the ring the worker returns 1
worker_run(start) ==
    /\ wRun = "spawned"
    /\ wRun' = (CASE start = "ready" -> "loop" [] start = "error" -> "exited"
                  [] OTHER -> "killed")
    /\ running_' = (start = "ready")
    /\ statQ' = (CASE start = "ready" -> Append(statQ, "Ready")
                   [] start = "error" -> Append(statQ, "Error")
                   [] OTHER -> statQ)
    /\ UNCHANGED <<hostVars, cmdQ, device_, streaming_, flags, handled, shutdownSent>>

\* SoapySDRPlayWorker::handleConfigure, SoapySDRPlayWorker.cpp:239-301
ConfigureReplies(dev, outcome) ==
    CASE outcome = "lockFailed" -> <<"Error">>
      [] outcome = "applyFailed" -> (IF dev THEN <<>> ELSE <<"Opened">>) \o <<"Error">>
      [] OTHER -> (IF dev THEN <<>> ELSE <<"Opened">>) \o <<"Configured">>

StartReplies_started(dev, strm, outcome) ==
    IF ~dev \/ (~strm /\ outcome # "ok") THEN <<"Error">> ELSE <<"Started">>
\* SoapySDRPlayWorker::handleStart, SoapySDRPlayWorker.cpp:303-354
StartReplies(dev, strm, outcome) ==
    IF ~dev THEN <<"Error">>
    ELSE IF strm THEN <<"Ack">>
    ELSE IF outcome = "ok" THEN <<"Started">> ELSE <<"Error">>

\* SoapySDRPlayWorker::handleStop, SoapySDRPlayWorker.cpp:356-380
StopReplies(strm) == IF strm THEN <<"Stopped">> ELSE <<"Ack">>

SetterReplies_silent(dev, outcome) == IF dev /\ outcome # "ok" THEN <<>> ELSE <<"Ack">>
\* SoapySDRPlayWorker::handleSetFrequency .. handleSetBandwidth,
\* SoapySDRPlayWorker.cpp:382-519
SetterReplies(dev, outcome) == IF dev /\ outcome # "ok" THEN <<"Error">> ELSE <<"Ack">>

\* the statuses the handler of a command sends, in order
Replies(cmd, dev, strm, outcome) ==
    CASE cmd = "Configure" -> ConfigureReplies(dev, outcome)
      [] cmd = "Start" -> StartReplies(dev, strm, outcome)
      [] cmd = "Stop" -> StopReplies(strm)
      [] cmd = "Shutdown" -> <<"Ack">>
      [] OTHER -> SetterReplies(dev, outcome)

\* whether the statuses name an error
HasError(replies) == \E i \in 1 .. Len(replies) : replies[i] = "Error"

\* one round of the command loop, SoapySDRPlayWorker.cpp:162-222, with the
\* handler of the command received
worker_handle(outcome) ==
    /\ wRun = "loop" /\ running_ /\ cmdQ # <<>>
    /\ LET cmd == Head(cmdQ)
           replies == Replies(cmd, device_, streaming_, outcome)
       IN  /\ cmdQ' = Tail(cmdQ)
           /\ statQ' = statQ \o replies
           /\ handled' = [n |-> handled.n + 1, cmd |-> cmd, dev |-> device_,
                          strm |-> streaming_, replies |-> replies]
           /\ device_' = (device_ \/ (cmd = "Configure" /\ outcome # "lockFailed"))
           /\ streaming_' = (CASE cmd = "Start" -> streaming_ \/ (device_ /\ outcome = "ok")
                               [] cmd = "Stop" -> FALSE
                               [] OTHER -> streaming_)
           /\ running_' = (cmd # "Shutdown")
           /\ flags' = (CASE HasError(replies) -> flags \cup {"ERROR"}
                          [] cmd = "Start" /\ replies = <<"Started">> ->
                                 flags \cup {"RUNNING"}
                          [] cmd = "Stop" /\ streaming_ -> flags \ {"RUNNING"}
                          [] OTHER -> flags)
    /\ UNCHANGED <<hostVars, wRun, shutdownSent>>

\* the streaming thread, SoapySDRPlayWorker.cpp:576-583: a write that did not
\* fit is reported
worker_overflow ==
    /\ wRun = "loop" /\ streaming_ /\ Len(statQ) < MaxQueue
    /\ statQ' = Append(statQ, "Overflow")
    /\ UNCHANGED <<hostVars, cmdQ, workerVars, shutdownSent>>

\* SoapySDRPlayWorker::run after the loop, SoapySDRPlayWorker.cpp:224-236: the
\* streaming thread is joined, the shutdown flag is set, the process exits
worker_exit ==
    /\ wRun = "loop" /\ ~running_
    /\ streaming_' = FALSE
    /\ flags' = flags \cup {"SHUTDOWN"}
    /\ wRun' = "exited"
    /\ UNCHANGED <<hostVars, cmdQ, statQ, running_, device_, handled, shutdownSent>>

\* WorkerSpawner::terminate, SoapySDRPlayWorker.cpp:742-765: SIGTERM, for which
\* the worker installs no handler (sdrplay_worker_main.cpp), ends a live worker
Terminated(w) == IF w \in {"spawned", "loop"} THEN "killed" ELSE w

\* the operation of the host thread returns or throws
Return(out) == pPc' = "idle" /\ pOut' = out

\* a worker process that has just been spawned on a ring that has just been created
FreshWorker ==
    /\ wRun' = "spawned" /\ running_' = FALSE /\ device_' = FALSE
    /\ streaming_' = FALSE /\ flags' = {}
    /\ handled' = [n |-> 0, cmd |-> "none", dev |-> FALSE, strm |-> FALSE,
                 replies |-> <<>>]
    /\ shutdownSent' = FALSE

\* SoapySDRPlayProxy::ensureWorker, SoapySDRPlayProxy.cpp:77-111, up to
\* waitForReady, followed when the worker is ready already by the Configure of
\* the caller (SoapySDRPlayProxy.cpp:347-360, 159-172); workerPid_ is -1
\* whenever workerReady_ is false, so lines 84-95 are never run
ensureWorker(ready, spawnOk) ==
    IF ready
    THEN /\ cmdQ' = Append(cmdQ, "Configure")
         /\ pPc' = "status" /\ pExpect' = "Configured"
         /\ UNCHANGED <<workerPid_, pipes_, statQ, workerVars, shutdownSent, pOut>>
    ELSE IF spawnOk
    THEN /\ workerPid_' = 1 /\ pipes_' = TRUE
         /\ cmdQ' = <<>> /\ statQ' = <<>>
         /\ FreshWorker
         /\ pPc' = "ready" /\ pExpect' = "Ready"
         /\ UNCHANGED pOut
    ELSE /\ workerPid_' = -1
         /\ Return("throw")
         /\ UNCHANGED <<pipes_, cmdQ, statQ, workerVars, shutdownSent, pExpect>>

\* SoapySDRPlayProxy::setupStream, SoapySDRPlayProxy.cpp:316-360, up to the
\* first wait
proxy_setupStream(spawnOk) ==
    /\ proxyAlive /\ pPc = "idle" /\ hostOps < MaxHostOps
    /\ hostOps' = hostOps + 1
    /\ pOp' = "setupStream"
    /\ ensureWorker(workerReady_, spawnOk)
    /\ UNCHANGED <<proxyAlive, workerReady_, streamActive_, streamOpen, wasStreaming>>

\* SoapySDRPlayProxy::readStream, SoapySDRPlayProxy.cpp:505-517, the read that
\* finds the write index unchanged for the MAX_STALE_READS-th time, and
\* SoapySDRPlayProxy::restartWorker, SoapySDRPlayProxy.cpp:130-156, up to the
\* first wait
proxy_readStream_stalled(spawnOk) ==
    /\ proxyAlive /\ pPc = "idle" /\ hostOps < MaxHostOps /\ streamOpen
    /\ hostOps' = hostOps + 1
    /\ pOp' = "restart"
    /\ wasStreaming' = streamActive_
    /\ workerReady_' = FALSE
    /\ streamActive_' = FALSE
    /\ IF spawnOk
       THEN /\ workerPid_' = 1 /\ pipes_' = TRUE
            /\ cmdQ' = <<>> /\ statQ' = <<>>
            /\ FreshWorker
            /\ pPc' = "ready" /\ pExpect' = "Ready"
            /\ UNCHANGED pOut
       ELSE /\ workerPid_' = -1 /\ pipes_' = FALSE
            /\ cmdQ' = <<>> /\ statQ' = <<>>
            /\ wRun' = Terminated(wRun)
            /\ Return("throw")
            /\ UNCHANGED <<running_, device_, streaming_, flags, handled, shutdownSent,
                           pExpect>>
    /\ UNCHANGED <<proxyAlive, streamOpen>>

\* ensureWorker after a failed waitForReady, SoapySDRPlayProxy.cpp:114-120
WorkerFailedToStart ==
    /\ wRun' = Terminated(wRun)
    /\ workerPid_' = -1 /\ pipes_' = FALSE
    /\ cmdQ' = <<>> /\ statQ' = <<>>
    /\ Return("throw")
    /\ UNCHANGED <<proxyAlive, workerReady_, streamActive_, streamOpen, pOp, pExpect,
                   wasStreaming, hostOps, running_, device_, streaming_, flags,
                   handled, shutdownSent>>

\* WorkerSpawner::waitForReady, SoapySDRPlayWorker.cpp:715-740, receives the
\* first status; after Ready the caller of ensureWorker sends Configure
waitForReady_receive ==
    /\ pPc = "ready" /\ statQ # <<>>
    /\ IF Head(statQ) = "Ready"
       THEN /\ workerReady_' = TRUE
            /\ statQ' = Tail(statQ)
            /\ cmdQ' = Append(cmdQ, "Configure")
            /\ pPc' = "status" /\ pExpect' = "Configured"
            /\ UNCHANGED <<proxyAlive, streamActive_, workerPid_, pipes_, streamOpen,
                           pOp, wasStreaming, pOut, hostOps, workerVars, shutdownSent>>
       ELSE WorkerFailedToStart

\* WorkerSpawner::waitForReady, SoapySDRPlayWorker.cpp:718-722: nothing arrives
\* in ten seconds
waitForReady_timeout ==
    /\ pPc = "ready" /\ statQ = <<>>
    /\ WorkerFailedToStart

\* SoapySDRPlayProxy::sendCommand, SoapySDRPlayProxy.cpp:202-216, with a live
\* pipe
sendCommand(cmd) == cmdQ' = Append(cmdQ, cmd)

\* a command of the host that is one message and one wait
sendAndWait(o, cmd, expect) ==
    /\ pOp' = o
    /\ sendCommand(cmd)
    /\ pPc' = "status" /\ pExpect' = expect
    /\ UNCHANGED pOut

\* SoapySDRPlayProxy::activateStream, SoapySDRPlayProxy.cpp:405-419, up to the wait
proxy_activateStream ==
    /\ proxyAlive /\ pPc = "idle" /\ hostOps < MaxHostOps /\ streamOpen
    /\ hostOps' = hostOps + 1
    /\ IF pipes_
       THEN sendAndWait("activateStream", "Start", "Started")
       ELSE /\ pOp' = "activateStream" /\ Return("STREAM_ERROR")
            /\ UNCHANGED <<cmdQ, pExpect>>
    /\ UNCHANGED <<proxyAlive, workerReady_, streamActive_, workerPid_, pipes_,
                   streamOpen, wasStreaming, statQ, workerVars, shutdownSent>>

\* SoapySDRPlayProxy::deactivateStream, SoapySDRPlayProxy.cpp:421-438, up to the
\* wait
proxy_deactivateStream ==
    /\ proxyAlive /\ pPc = "idle" /\ hostOps < MaxHostOps /\ streamOpen
    /\ hostOps' = hostOps + 1
    /\ IF ~streamActive_
       THEN /\ pOp' = "deactivateStream" /\ Return("ok")
            /\ UNCHANGED <<cmdQ, pExpect>>
       ELSE IF pipes_
       THEN sendAndWait("deactivateStream", "Stop", "Stopped")
       ELSE /\ pOp' = "deactivateStream" /\ Return("STREAM_ERROR")
            /\ UNCHANGED <<cmdQ, pExpect>>
    /\ UNCHANGED <<proxyAlive, workerReady_, streamActive_, workerPid_, pipes_,
                   streamOpen, wasStreaming, statQ, workerVars, shutdownSent>>

\* SoapySDRPlayProxy::setFrequency, setSampleRate, setGain, setGainMode,
\* setAntenna, setBandwidth (SoapySDRPlayProxy.cpp:734-751 and alike), up to the
\* wait: the value is cached, and sent when the worker is ready
proxy_setter(cmd) ==
    /\ proxyAlive /\ pPc = "idle" /\ hostOps < MaxHostOps
    /\ hostOps' = hostOps + 1
    /\ IF workerReady_
       THEN sendAndWait("setter", cmd, "Ack")
       ELSE /\ pOp' = "setter" /\ Return("ok")
            /\ UNCHANGED <<cmdQ, pExpect>>
    /\ UNCHANGED <<proxyAlive, workerReady_, streamActive_, workerPid_, pipes_,
                   streamOpen, wasStreaming, statQ, workerVars, shutdownSent>>

\* what waitForStatus makes of a status, SoapySDRPlayProxy.cpp:247-263: "false",
\* "true", or "again" when the status is discarded
Accepts(status, expectedType) ==
    IF status = "Error" THEN "false"
    ELSE IF status = expectedType \/ status = "Ack" THEN "true"
    ELSE "again"

\* the caller of waitForStatus goes on with its result
\* (SoapySDRPlayProxy.cpp:362-376, 174-192, 413-418, 435-437, 745-749)
StatusDone(ok) ==
    CASE pOp = "setupStream" ->
            /\ streamOpen' = (streamOpen \/ ok)
            /\ Return(IF ok THEN "ok" ELSE "throw")
            /\ UNCHANGED <<streamActive_, cmdQ, pExpect>>
      [] pOp = "restart" /\ pExpect = "Configured" ->
            IF ok /\ wasStreaming
            THEN /\ sendCommand("Start")
                 /\ pExpect' = "Started"
                 /\ UNCHANGED <<streamActive_, streamOpen, pPc, pOut>>
            ELSE /\ Return(IF ok THEN "TIMEOUT" ELSE "throw")
                 /\ UNCHANGED <<streamActive_, streamOpen, cmdQ, pExpect>>
      [] pOp = "restart" /\ pExpect = "Started" ->
            /\ streamActive_' = ok
            /\ Return("TIMEOUT")
            /\ UNCHANGED <<streamOpen, cmdQ, pExpect>>
      [] pOp = "activateStream" ->
            /\ streamActive_' = (streamActive_ \/ ok)
            /\ Return(IF ok THEN "ok" ELSE "STREAM_ERROR")
            /\ UNCHANGED <<streamOpen, cmdQ, pExpect>>
      [] pOp = "deactivateStream" ->
            /\ streamActive_' = FALSE
            /\ Return("ok")
            /\ UNCHANGED <<streamOpen, cmdQ, pExpect>>
      [] OTHER ->
            /\ Return(IF ok THEN "ok" ELSE "throw")
            /\ UNCHANGED <<streamActive_, streamOpen, cmdQ, pExpect>>

\* SoapySDRPlayProxy::waitForStatus, SoapySDRPlayProxy.cpp:218-265, receives a
\* status
waitForStatus_receive ==
    /\ pPc = "status" /\ statQ # <<>>
    /\ statQ' = Tail(statQ)
    /\ LET result == Accepts(Head(statQ), pExpect)
       IN  IF result = "again"
           THEN UNCHANGED <<streamActive_, streamOpen, cmdQ, pPc, pExpect, pOut>>
           ELSE StatusDone(result = "true")
    /\ UNCHANGED <<proxyAlive, workerReady_, workerPid_, pipes_, pOp, wasStreaming,
                   hostOps, workerVars, shutdownSent>>

\* SoapySDRPlayProxy::waitForStatus, SoapySDRPlayProxy.cpp:230-245: the timeout
\* passes with no status in the pipe
waitForStatus_timeout ==
    /\ pPc = "status" /\ statQ = <<>>
    /\ StatusDone(FALSE)
    /\ UNCHANGED <<proxyAlive, workerReady_, workerPid_, pipes_, pOp, wasStreaming,
                   hostOps, statQ, workerVars, shutdownSent>>

\* SoapySDRPlayProxy::~SoapySDRPlayProxy, SoapySDRPlayProxy.cpp:49-65: Stop when
\* the stream is active, then Shutdown
proxy_dtor ==
    /\ proxyAlive /\ pPc = "idle"
    /\ pOp' = "destructor"
    /\ cmdQ' = cmdQ \o (IF streamActive_ /\ pipes_ THEN <<"Stop">> ELSE <<>>)
                    \o (IF workerPid_ > 0 /\ pipes_ THEN <<"Shutdown">> ELSE <<>>)
    /\ shutdownSent' = (workerPid_ > 0 /\ pipes_)
    /\ IF workerPid_ > 0
       THEN pPc' = "terminate" /\ UNCHANGED proxyAlive
       ELSE proxyAlive' = FALSE /\ UNCHANGED pPc
    /\ UNCHANGED <<workerReady_, streamActive_, workerPid_, pipes_, streamOpen,
                   pExpect, wasStreaming, pOut, hostOps, statQ, workerVars>>

\* SoapySDRPlayProxy::~SoapySDRPlayProxy, SoapySDRPlayProxy.cpp:67-74:
\* WorkerSpawner::terminate, and the ring and the pipes are let go
proxy_dtor_terminate ==
    /\ pPc = "terminate"
    /\ wRun' = Terminated(wRun)
    /\ workerPid_' = -1 /\ pipes_' = FALSE
    /\ proxyAlive' = FALSE
    /\ pPc' = "idle"
    /\ UNCHANGED <<workerReady_, streamActive_, streamOpen, pOp, pExpect,
                   wasStreaming, pOut, hostOps, cmdQ, statQ, running_, device_,
                   streaming_, flags, handled, shutdownSent>>

(***************************************************************************)
(* Framing on the pipes: IPCPipe.cpp                                       *)
(***************************************************************************)
\* frames the sender writes
MaxFrames == 2
\* bytes of the length prefix (uint32_t len, IPCPipe.cpp:295 and 308), scaled
LenBytes == 2
\* the values a byte takes, scaled, and the number of them
ByteBase == 2
Bytes == 0 .. ByteBase - 1
\* the largest length receive accepts (1024 * 1024, IPCPipe.cpp:315), scaled
MaxMessageSize == 2
\* the longest serialized message a sender writes: one byte too many for receive
MaxPayload == MaxMessageSize + 1

RECURSIVE EncodeLen(_, _)
\* the length as LenBytes bytes, least significant first (the memory of a
\* uint32_t on the little-endian hosts the driver is built for)
EncodeLen(len, nbytes) ==
    IF nbytes = 0 THEN <<>>
    ELSE <<len % ByteBase>> \o EncodeLen(len \div ByteBase, nbytes - 1)

RECURSIVE DecodeLen(_)
\* the uint32_t that readExact has filled byte by byte
DecodeLen(bytes) ==
    IF bytes = <<>> THEN 0
    ELSE Head(bytes) + ByteBase * DecodeLen(Tail(bytes))

\* the payloads serialize gives: at least the header, at most MaxPayload bytes
Payloads == UNION {[1 .. n -> Bytes] : n \in 1 .. MaxPayload}

VARIABLES
    pipeBytes,          \* the bytes in the pipe, each with the thread that wrote
                        \* it and what that sender meant by it: start of a frame
                        \* or not, part of an oversized frame
    sndPc,              \* sender: "idle", or "data" between its two writeExact
    sndData,            \* sender: the serialized message still to be written
    ovfPc,              \* streaming thread of the worker, sending on the same
                        \* pipe: "idle", or "data" between its two writeExact
    ovfData,            \* streaming thread: the message still to be written
    sent,               \* frames sent so far
    fd_,                \* IPCPipe::fd_ of the receiving end
    rcvPc,              \* receiver: "idle", "len" or "data" (which readExact)
    rcvGot,             \* receiver: the bytes the readExact in progress has so far
    rcvLen,             \* receiver: len
    rcvResult,          \* how the last receive ended: "none", "message", "timeout",
                        \* "tooLarge", "closed"
    rcvMsg,             \* the data of the last message handed to deserialize
    rcvPrefix           \* what the sender meant by the byte that the receiver
                        \* took last as the first byte of a length

ivars == <<pipeBytes, sndPc, sndData, ovfPc, ovfData, sent, fd_, rcvPc, rcvGot, rcvLen, rcvResult,
           rcvMsg, rcvPrefix>>

\* IPCPipe::IPCPipe, IPCPipe.cpp:181-185, on both ends of a new pipe
InitPipe ==
    /\ pipeBytes = <<>>
    /\ sndPc = "idle" /\ sndData = <<>> /\ sent = 0
    /\ ovfPc = "idle" /\ ovfData = <<>>
    /\ fd_ = 3
    /\ rcvPc = "idle" /\ rcvGot = <<>> /\ rcvLen = 0
    /\ rcvResult = "none" /\ rcvMsg = <<>>
    /\ rcvPrefix = [b |-> 0, start |-> TRUE, big |-> FALSE, by |-> "loop"]

\* the bytes of one writeExact as they lie in the pipe
Written(by, bytes, isLen, big) ==
    [i \in 1 .. Len(bytes) |->
        [b |-> bytes[i], start |-> isLen /\ i = 1, big |-> big, by |-> by]]

\* IPCPipe::send, IPCPipe.cpp:290-299: the message is serialized and its length
\* written
IPCPipe_send(msgData) ==
    /\ sndPc = "idle" /\ sent < MaxFrames
    /\ sent' = sent + 1
    /\ pipeBytes' = pipeBytes \o Written("loop", EncodeLen(Len(msgData), LenBytes), TRUE,
                                         Len(msgData) > MaxMessageSize)
    /\ sndPc' = "data" /\ sndData' = msgData
    /\ UNCHANGED <<ovfPc, ovfData, fd_, rcvPc, rcvGot, rcvLen, rcvResult, rcvMsg, rcvPrefix>>

\* IPCPipe::send, IPCPipe.cpp:301-302: the data are written
IPCPipe_send_data ==
    /\ sndPc = "data"
    /\ pipeBytes' = pipeBytes \o Written("loop", sndData, FALSE,
                                         Len(sndData) > MaxMessageSize)
    /\ sndPc' = "idle" /\ sndData' = <<>>
    /\ UNCHANGED <<ovfPc, ovfData, sent, fd_, rcvPc, rcvGot, rcvLen, rcvResult, rcvMsg, rcvPrefix>>

\* SoapySDRPlayWorker::streamingLoop, SoapySDRPlayWorker.cpp:576-583: after a
\* write that did not fit, the streaming thread sends Overflow on statusPipe_, the
\* pipe on which the command loop sends its statuses; IPCPipe::send takes no lock
\* (IPCPipe.cpp:290-303), so here too the length is written first
streamingLoop_send(msgData) ==
    /\ ovfPc = "idle" /\ sent < MaxFrames
    /\ sent' = sent + 1
    /\ pipeBytes' = pipeBytes \o Written("stream", EncodeLen(Len(msgData), LenBytes),
                                         TRUE, Len(msgData) > MaxMessageSize)
    /\ ovfPc' = "data" /\ ovfData' = msgData
    /\ UNCHANGED <<sndPc, sndData, fd_, rcvPc, rcvGot, rcvLen, rcvResult, rcvMsg,
                   rcvPrefix>>

\* IPCPipe::send called by the streaming thread, IPCPipe.cpp:301-302: the data
\* are written
streamingLoop_send_data ==
    /\ ovfPc = "data"
    /\ pipeBytes' = pipeBytes \o Written("stream", ovfData, FALSE,
                                         Len(ovfData) > MaxMessageSize)
    /\ ovfPc' = "idle" /\ ovfData' = <<>>
    /\ UNCHANGED <<sndPc, sndData, sent, fd_, rcvPc, rcvGot, rcvLen, rcvResult,
                   rcvMsg, rcvPrefix>>

\* IPCPipe::receive, IPCPipe.cpp:305-309, enters readExact for the length;
\* readExact returns false at once on a closed pipe (IPCPipe.cpp:216)
IPCPipe_receive ==
    /\ rcvPc = "idle"
    /\ IF fd_ < 0
       THEN rcvResult' = "closed" /\ UNCHANGED rcvPc
       ELSE rcvPc' = "len" /\ UNCHANGED rcvResult
    /\ rcvGot' = <<>>
    /\ UNCHANGED <<pipeBytes, sndPc, sndData, ovfPc, ovfData, sent, fd_, rcvLen, rcvMsg, rcvPrefix>>

\* the sanity check of receive, IPCPipe.cpp:314-319
TooLarge(len) == len > MaxMessageSize

\* receive after the length is read, IPCPipe.cpp:314-329: the length is refused,
\* or the data are read; readExact for no bytes returns true without reading
LengthRead(len) ==
    IF TooLarge(len)
    THEN /\ rcvResult' = "tooLarge" /\ rcvPc' = "idle"
         /\ UNCHANGED <<rcvLen, rcvMsg, fd_>>
    ELSE IF len = 0
    THEN /\ rcvResult' = "message" /\ rcvMsg' = <<>> /\ rcvPc' = "idle"
         /\ rcvLen' = len /\ UNCHANGED fd_
    ELSE /\ rcvPc' = "data" /\ rcvLen' = len
         /\ UNCHANGED <<rcvResult, rcvMsg, fd_>>

\* one round of IPCPipe::readExact, IPCPipe.cpp:221-247: poll reports bytes and
\* read takes as many as there are, up to those that remain
readExact_read ==
    /\ rcvPc \in {"len", "data"} /\ pipeBytes # <<>>
    /\ LET need == IF rcvPc = "len" THEN LenBytes ELSE rcvLen
           n == Min(Len(pipeBytes), need - Len(rcvGot))
           got == rcvGot \o SubSeq(pipeBytes, 1, n)
           values == [i \in 1 .. Len(got) |-> got[i].b]
       IN  /\ pipeBytes' = SubSeq(pipeBytes, n + 1, Len(pipeBytes))
           /\ rcvPrefix' = (IF rcvPc = "len" /\ rcvGot = <<>>
                            THEN pipeBytes[1] ELSE rcvPrefix)
           /\ IF Len(got) < need
              THEN /\ rcvGot' = got
                   /\ UNCHANGED <<rcvPc, rcvLen, rcvResult, rcvMsg, fd_>>
              ELSE /\ rcvGot' = <<>>
                   /\ IF rcvPc = "len"
                      THEN LengthRead(DecodeLen(values))
                      ELSE /\ rcvResult' = "message" /\ rcvMsg' = values
                           /\ rcvPc' = "idle"
                           /\ UNCHANGED <<rcvLen, fd_>>
    /\ UNCHANGED <<sndPc, sndData, ovfPc, ovfData, sent>>

\* IPCPipe::readExact, IPCPipe.cpp:228-233: poll reports nothing within the
\* timeout; receive returns false and the bytes read so far are dropped
readExact_timeout ==
    /\ rcvPc \in {"len", "data"} /\ pipeBytes = <<>>
    /\ rcvResult' = "timeout" /\ rcvPc' = "idle"
    /\ rcvGot' = <<>>
    /\ UNCHANGED <<pipeBytes, sndPc, sndData, ovfPc, ovfData, sent, fd_, rcvLen, rcvMsg, rcvPrefix>>

\* IPCPipe::close, IPCPipe.cpp:192-199, called by the owner of the receiving end
IPCPipe_close ==
    /\ rcvPc = "idle" /\ fd_ >= 0
    /\ fd_' = -1
    /\ UNCHANGED <<pipeBytes, sndPc, sndData, ovfPc, ovfData, sent, rcvPc, rcvGot, rcvLen, rcvResult,
                   rcvMsg, rcvPrefix>>

(***************************************************************************)
(* Health monitor: HealthMonitor.cpp, and the watchdog tracking of          *)
(* Streaming.cpp                                                           *)
(***************************************************************************)
\* callbacks one stream counts
MaxCallbacks == 2
\* WatchdogConfig::callbackTimeoutMs (SoapySDRPlay.hpp:170) in check intervals
CallbackTimeoutTicks == 2
\* WatchdogConfig::maxRecoveryAttempts (SoapySDRPlay.hpp:172)
maxRecoveryAttempts == 2
\* WatchdogConfig::recoveryBackoffMs (SoapySDRPlay.hpp:173) in check intervals
BackoffTicks == 1

Channels == {0, 1}

RECURSIVE Pow2(_)
\* 1 << n
Pow2(n) == IF n = 0 THEN 1 ELSE 2 * Pow2(n - 1)

\* elapsed times are kept up to the largest value any comparison tells apart
ElapsedCap == CallbackTimeoutTicks + 1
RecoveryCap == BackoffTicks * Pow2(maxRecoveryAttempts - 1)

VARIABLES
    hStatus,              \* healthInfo.status
    autoRecover,          \* watchdogConfig.autoRecover
    restartServiceOnFailure, \* watchdogConfig.restartServiceOnFailure
    recoveryAttemptCount, \* SoapySDRPlay::recoveryAttemptCount
    sinceRecovery,        \* time since lastRecoveryAttempt, in check intervals
    hLive,                \* per channel: _streams[ch] is set
    lastCallbackTicks,    \* per channel: stream->lastCallbackTicks
    lastWatchdogTicks,    \* per channel: stream->lastWatchdogTicks
    sinceCallbackTime,    \* per channel: time since stream->lastCallbackTime
    hStreamActive,        \* SoapySDRPlay::streamActive
    hDeviceUnavailable,   \* SoapySDRPlay::device_unavailable
    watchdogRunning,      \* SoapySDRPlay::watchdogRunning
    wdPc,                 \* watchdog thread: "sleep", or "recover" before
                          \* handleStaleStream
    tickSaw,              \* what the last tick of the watchdog met
    hop                   \* the operation that made the last step

hvars == <<hStatus, autoRecover, restartServiceOnFailure, recoveryAttemptCount,
           sinceRecovery, hLive, lastCallbackTicks, lastWatchdogTicks,
           sinceCallbackTime, hStreamActive, hDeviceUnavailable, watchdogRunning,
           wdPc, tickSaw, hop>>

\* SoapySDRPlay::SoapySDRPlay, DeviceControl.cpp:48-65, the member initialisers
\* of SoapySDRPlay.hpp:117-119 and 578-583, and a setWatchdogConfig
\* (HealthMonitor.cpp:93-96) of the host
\* what is recorded of a tick while the last step was not one
NoTick == [active |-> FALSE, unavailable |-> FALSE, before |-> "Healthy", live |-> {},
           unchanged |-> {}, elapsed |-> [ch \in Channels |-> 0]]

InitHealth ==
    /\ hStatus = "Healthy"
    /\ autoRecover \in BOOLEAN
    /\ restartServiceOnFailure \in BOOLEAN
    /\ recoveryAttemptCount = 0
    /\ sinceRecovery = RecoveryCap
    /\ hLive = [ch \in Channels |-> FALSE]
    /\ lastCallbackTicks = [ch \in Channels |-> 0]
    /\ lastWatchdogTicks = [ch \in Channels |-> 0]
    /\ sinceCallbackTime = [ch \in Channels |-> 0]
    /\ hStreamActive = FALSE
    /\ hDeviceUnavailable = FALSE
    /\ watchdogRunning = FALSE
    /\ wdPc = "sleep"
    /\ tickSaw = NoTick
    /\ hop = "init"

\* SoapySDRPlay::activateStream, Streaming.cpp:554-656, for a new stream on a
\* channel: the stream is published, its watchdog tracking starts and the
\* watchdog thread is started
health_activateStream(ch) ==
    /\ ~hLive[ch]
    /\ hLive' = [hLive EXCEPT ![ch] = TRUE]
    /\ lastCallbackTicks' = [lastCallbackTicks EXCEPT ![ch] = 0]
    /\ lastWatchdogTicks' = [lastWatchdogTicks EXCEPT ![ch] = 0]
    /\ sinceCallbackTime' = [sinceCallbackTime EXCEPT ![ch] = 0]
    /\ hStreamActive' = TRUE
    /\ watchdogRunning' = TRUE
    /\ hop' = "activateStream"
    /\ UNCHANGED <<hStatus, autoRecover, restartServiceOnFailure, recoveryAttemptCount,
                   sinceRecovery, hDeviceUnavailable, wdPc>>
    /\ tickSaw' = NoTick

\* SoapySDRPlay::closeStream, Streaming.cpp:437-535: the stream is unpublished;
\* with the last one the watchdog is stopped (stopWatchdog joins the thread,
\* HealthMonitor.cpp:270-285) and streamActive is cleared
health_closeStream(ch) ==
    /\ hLive[ch] /\ wdPc = "sleep"
    /\ hLive' = [hLive EXCEPT ![ch] = FALSE]
    /\ LET last == \A c \in Channels \ {ch} : ~hLive[c]
       IN  /\ hStreamActive' = (IF last THEN FALSE ELSE hStreamActive)
           /\ watchdogRunning' = (IF last THEN FALSE ELSE watchdogRunning)
    /\ hop' = "closeStream"
    /\ UNCHANGED <<hStatus, autoRecover, restartServiceOnFailure, recoveryAttemptCount,
                   sinceRecovery, lastCallbackTicks, lastWatchdogTicks,
                   sinceCallbackTime, hDeviceUnavailable, wdPc>>
    /\ tickSaw' = NoTick

\* SoapySDRPlay::rx_callback, Streaming.cpp:104-115: the callback counts itself
health_rx_callback(ch) ==
    /\ hLive[ch] /\ ~hDeviceUnavailable
    /\ lastCallbackTicks[ch] < MaxCallbacks
    /\ lastCallbackTicks' = [lastCallbackTicks EXCEPT ![ch] = @ + 1]
    /\ hop' = "rx_callback"
    /\ UNCHANGED <<hStatus, autoRecover, restartServiceOnFailure, recoveryAttemptCount,
                   sinceRecovery, hLive, lastWatchdogTicks, sinceCallbackTime,
                   hStreamActive, hDeviceUnavailable, watchdogRunning, wdPc>>
    /\ tickSaw' = NoTick

\* SoapySDRPlay::ev_callback, Streaming.cpp:287-334: the device is removed
health_ev_callback ==
    /\ ~hDeviceUnavailable
    /\ hDeviceUnavailable' = TRUE
    /\ hop' = "ev_callback"
    /\ UNCHANGED <<hStatus, autoRecover, restartServiceOnFailure, recoveryAttemptCount,
                   sinceRecovery, hLive, lastCallbackTicks, lastWatchdogTicks,
                   sinceCallbackTime, hStreamActive, watchdogRunning, wdPc>>
    /\ tickSaw' = NoTick

SkipTick_never(active, unavailable) == FALSE
\* HealthMonitor.cpp:300-303: the tick is skipped when streaming is not active or
\* the device is unavailable
SkipTick(active, unavailable) == ~active \/ unavailable

\* HealthMonitor.cpp:319-331: the callbacks of a stream have stopped for too long
IsStale(unchanged, elapsed) == unchanged /\ elapsed > CallbackTimeoutTicks

\* one round of SoapySDRPlay::watchdogThreadFunc, HealthMonitor.cpp:287-364, up
\* to the call of handleStaleStream: the sleep, the check of every stream, and
\* the update of the health status
watchdog_tick ==
    /\ watchdogRunning /\ wdPc = "sleep"
    /\ hop' = "tick"
    /\ sinceRecovery' = Min(RecoveryCap, sinceRecovery + 1)
    /\ LET elapsed == [ch \in Channels |-> Min(ElapsedCap, sinceCallbackTime[ch] + 1)]
           live == {ch \in Channels : hLive[ch]}
           unchanged == {ch \in live : lastCallbackTicks[ch] = lastWatchdogTicks[ch]}
           skip == SkipTick(hStreamActive, hDeviceUnavailable)
           anyStale == \E ch \in live : IsStale(ch \in unchanged, elapsed[ch])
       IN  /\ tickSaw' = [active |-> hStreamActive, unavailable |-> hDeviceUnavailable,
                          before |-> hStatus, live |-> live,
                          unchanged |-> unchanged, elapsed |-> elapsed]
           /\ IF skip
              THEN /\ sinceCallbackTime' = elapsed
                   /\ UNCHANGED <<hStatus, lastWatchdogTicks, wdPc>>
              ELSE /\ lastWatchdogTicks' =
                          [ch \in Channels |-> IF ch \in live \ unchanged
                                               THEN lastCallbackTicks[ch]
                                               ELSE lastWatchdogTicks[ch]]
                   /\ sinceCallbackTime' =
                          [ch \in Channels |-> IF ch \in live \ unchanged
                                               THEN 0 ELSE elapsed[ch]]
                   /\ hStatus' = (IF anyStale THEN "Stale" ELSE "Healthy")
                   /\ wdPc' = (IF anyStale /\ autoRecover THEN "recover" ELSE "sleep")
    /\ UNCHANGED <<autoRecover, restartServiceOnFailure, recoveryAttemptCount, hLive,
                   lastCallbackTicks, hStreamActive, hDeviceUnavailable,
                   watchdogRunning>>

\* the result of SoapySDRPlay::attemptStreamRecovery, HealthMonitor.cpp:451-471
RecoveryResult(responsive, restartOk, restartCfg) ==
    IF responsive THEN "FailedInit"
    ELSE IF restartCfg /\ restartOk THEN "Success"
    ELSE "ServiceDown"

\* SoapySDRPlay::attemptStreamRecovery, HealthMonitor.cpp:409-485, as many
\* times as it is called in a row: the status goes to Recovering and then to
\* Stale, and the attempt is counted
attemptStreamRecovery(times) ==
    /\ hStatus' = "Stale"
    /\ recoveryAttemptCount' = recoveryAttemptCount + times
    /\ sinceRecovery' = 0

MaxAttemptsExceeded_never(attempts) == FALSE
\* HealthMonitor.cpp:377: the attempts are used up
MaxAttemptsExceeded(attempts) == attempts >= maxRecoveryAttempts

\* SoapySDRPlay::handleStaleStream, HealthMonitor.cpp:374-407, called by the
\* watchdog after it found a stale stream
handleStaleStream(responsive, restartOk, restartAgainOk) ==
    /\ wdPc = "recover"
    /\ wdPc' = "sleep"
    /\ hop' = "handleStaleStream"
    /\ IF MaxAttemptsExceeded(recoveryAttemptCount)
       THEN /\ hStatus' = "Failed"
            /\ UNCHANGED <<recoveryAttemptCount, sinceRecovery>>
       ELSE IF sinceRecovery < BackoffTicks * Pow2(recoveryAttemptCount)
       THEN UNCHANGED <<hStatus, recoveryAttemptCount, sinceRecovery>>
       ELSE LET result == RecoveryResult(responsive, restartOk, restartServiceOnFailure)
            IN  IF result = "Success"
                THEN /\ hStatus' = "Stale"
                     /\ recoveryAttemptCount' = 0
                     /\ sinceRecovery' = 0
                ELSE IF result = "ServiceDown" /\ restartServiceOnFailure
                                               /\ restartAgainOk
                THEN attemptStreamRecovery(2)
                ELSE attemptStreamRecovery(1)
    /\ UNCHANGED <<autoRecover, restartServiceOnFailure, hLive, lastCallbackTicks,
                   lastWatchdogTicks, sinceCallbackTime, hStreamActive,
                   hDeviceUnavailable, watchdogRunning>>
    /\ tickSaw' = NoTick

\* SoapySDRPlay::triggerRecovery, HealthMonitor.cpp:491-495, called by the host
triggerRecovery ==
    /\ recoveryAttemptCount <= maxRecoveryAttempts
    /\ hop' = "triggerRecovery"
    /\ attemptStreamRecovery(1)
    /\ UNCHANGED <<autoRecover, restartServiceOnFailure, hLive, lastCallbackTicks,
                   lastWatchdogTicks, sinceCallbackTime, hStreamActive,
                   hDeviceUnavailable, watchdogRunning, wdPc>>
    /\ tickSaw' = NoTick

(***************************************************************************)
(* Device settings: gain and sample rate (Gain.cpp, SampleRate.cpp), and   *)
(* the sample rate as the proxy and its worker cache it                    *)
(***************************************************************************)
\* values a caller writes to the gain elements
IfgrValues == {20, 50}
LnaStates == {0, 4}
\* output rates a caller asks for
Rates == {62500, 100000, 3000000, 12000000}
\* what becomes of a call of executeApiUpdate: the vendor update succeeds, it is
\* skipped because another update holds api_update_mutex, or the vendor refuses
UpdateOutcomes == {"ok", "busy", "failed"}

getBwEnumForRate_inclusive(output_sample_rate) ==
    IF      output_sample_rate <=  300000 THEN "BW_0_200"
    ELSE IF output_sample_rate <=  600000 THEN "BW_0_300"
    ELSE IF output_sample_rate <= 1536000 THEN "BW_0_600"
    ELSE IF output_sample_rate <= 5000000 THEN "BW_1_536"
    ELSE IF output_sample_rate <= 6000000 THEN "BW_5_000"
    ELSE IF output_sample_rate <= 7000000 THEN "BW_6_000"
    ELSE IF output_sample_rate <= 8000000 THEN "BW_7_000"
    ELSE "BW_8_000"
\* SoapySDRPlay::getBwEnumForRate, SampleRate.cpp:365-375
getBwEnumForRate(output_sample_rate) ==
    IF      output_sample_rate <  300000 THEN "BW_0_200"
    ELSE IF output_sample_rate <  600000 THEN "BW_0_300"
    ELSE IF output_sample_rate < 1536000 THEN "BW_0_600"
    ELSE IF output_sample_rate < 5000000 THEN "BW_1_536"
    ELSE IF output_sample_rate < 6000000 THEN "BW_5_000"
    ELSE IF output_sample_rate < 7000000 THEN "BW_6_000"
    ELSE IF output_sample_rate < 8000000 THEN "BW_7_000"
    ELSE "BW_8_000"

\* SoapySDRPlay::getBwValueFromEnum, SampleRate.cpp:377-388
getBwValueFromEnum(bwEnum) ==
    IF      bwEnum = "BW_0_200" THEN 200000
    ELSE IF bwEnum = "BW_0_300" THEN 300000
    ELSE IF bwEnum = "BW_0_600" THEN 600000
    ELSE IF bwEnum = "BW_1_536" THEN 1536000
    ELSE IF bwEnum = "BW_5_000" THEN 5000000
    ELSE IF bwEnum = "BW_6_000" THEN 6000000
    ELSE IF bwEnum = "BW_7_000" THEN 7000000
    ELSE IF bwEnum = "BW_8_000" THEN 8000000
    ELSE 0

\* SoapySDRPlay::getInputSampleRateAndDecimation, SampleRate.cpp:187-249, for a
\* device whose low-IF input rate is 6 MHz; dual is an RSPduo not in single
\* tuner mode; fs = -1 stands for a rate that is refused
getInputSampleRateAndDecimation(output_sample_rate, dual) ==
    LET Lif(m, e) == [fs |-> 6000000, decM |-> m, decEnable |-> e, ifType |-> "IF_1_620"]
        Zif(m, e) == [fs |-> output_sample_rate * m, decM |-> m, decEnable |-> e,
                      ifType |-> "IF_Zero"]
        Refused == [fs |-> -1, decM |-> 0, decEnable |-> 0, ifType |-> "IF_Undefined"]
    IN  IF      output_sample_rate = 62500   THEN Lif(32, 1)
        ELSE IF output_sample_rate = 125000  THEN Lif(16, 1)
        ELSE IF output_sample_rate = 250000  THEN Lif(8, 1)
        ELSE IF output_sample_rate = 500000  THEN Lif(4, 1)
        ELSE IF output_sample_rate = 1000000 THEN Lif(2, 1)
        ELSE IF output_sample_rate = 2000000 THEN Lif(1, 0)
        ELSE IF dual THEN Refused
        ELSE IF output_sample_rate <= 2000000
        THEN IF      output_sample_rate = 96000  THEN Zif(32, 1)
             ELSE IF output_sample_rate = 192000 THEN Zif(16, 1)
             ELSE IF output_sample_rate = 384000 THEN Zif(8, 1)
             ELSE IF output_sample_rate = 768000 THEN Zif(4, 1)
             ELSE Refused
        ELSE Zif(1, 0)

\* SoapySDRPlay::getSampleRateRange, SampleRate.cpp:159-185: the output rates
\* the driver announces
SupportedRate(rate, dual) ==
    \/ rate \in {62500, 125000, 250000, 500000, 1000000, 2000000}
    \/ ~dual /\ rate \in {96000, 192000, 384000, 768000}
    \/ ~dual /\ rate >= 2000000 /\ rate <= 10660000

VARIABLES
    rspDuoDual,           \* the device is an RSPduo not in single tuner mode
    agcEnable,            \* chParams->ctrlParams.agc.enable
    gRdB,                 \* chParams->tunerParams.gain.gRdB
    LNAstate,             \* chParams->tunerParams.gain.LNAstate
    desired_if_gr,
    desired_lna_state,
    fsHz,                 \* deviceParams->devParams->fsFreq.fsHz
    ifType,               \* chParams->tunerParams.ifType
    decimation,           \* chParams->ctrlParams.decimation
    bwType,               \* chParams->tunerParams.bwType
    cfgBufferThreshold,   \* cachedBufferThreshold
    cfgStreamActive,      \* streamActive
    cfgStreams,           \* there is a stream in _streams
    cfgReset,             \* its reset flag
    proxySampleRate,      \* SoapySDRPlayProxy::sampleRate_
    workerSampleRate,     \* SoapySDRPlayWorker::sampleRate_
    ringSampleRate,       \* the sample rate in the header of the shared ring
    cfgOp                 \* the last call, its arguments and what became of it

cvars == <<rspDuoDual, agcEnable, gRdB, LNAstate, desired_if_gr, desired_lna_state,
           fsHz, ifType, decimation, bwType, cfgBufferThreshold, cfgStreamActive,
           cfgStreams, cfgReset, proxySampleRate, workerSampleRate, ringSampleRate,
           cfgOp>>

\* everything a setter may change and a getter may show
Settings ==
    [agc |-> agcEnable, gRdB |-> gRdB, LNAstate |-> LNAstate,
     desired_if_gr |-> desired_if_gr, desired_lna_state |-> desired_lna_state,
     fsHz |-> fsHz, ifType |-> ifType, decimation |-> decimation, bwType |-> bwType,
     threshold |-> cfgBufferThreshold, reset |-> cfgReset,
     proxyRate |-> proxySampleRate, workerRate |-> workerSampleRate,
     ringRate |-> ringSampleRate]

Call(name, arg, value, update, result) ==
    [name |-> name, arg |-> arg, value |-> value, update |-> update, ret |-> result]

\* the parameters as the vendor API hands them out (tests/mock_sdrplay_api.cpp:
\* 26-39), the tracked gains of SoapySDRPlay.hpp:528-529 and the cached rates of
\* SoapySDRPlayProxy.hpp:160 and SoapySDRPlayWorker.hpp:107
InitSettings ==
    /\ rspDuoDual \in BOOLEAN
    /\ agcEnable = "AGC_50HZ"
    /\ gRdB = 50 /\ LNAstate = 0
    /\ desired_if_gr = 40 /\ desired_lna_state = 4
    /\ fsHz = 2000000 /\ ifType = "IF_Zero"
    /\ decimation = [enable |-> 0, decimationFactor |-> 1, wideBandSignal |-> 0]
    /\ bwType = "BW_0_200"
    /\ cfgBufferThreshold = bufferLength
    /\ cfgStreamActive = FALSE /\ cfgStreams = FALSE /\ cfgReset = FALSE
    /\ proxySampleRate = 2000000 /\ workerSampleRate = 2000000
    /\ ringSampleRate = 0
    /\ cfgOp = Call("init", "", 0, "none", "ok")

\* SoapySDRPlay::setupStream and activateStream, as far as the setters see them
cfg_setupStream ==
    /\ ~cfgStreams
    /\ cfgStreams' = TRUE /\ cfgReset' = FALSE
    /\ cfgOp' = Call("setupStream", "", 0, "none", "ok")
    /\ UNCHANGED <<rspDuoDual, agcEnable, gRdB, LNAstate, desired_if_gr,
                   desired_lna_state, fsHz, ifType, decimation, bwType,
                   cfgBufferThreshold, cfgStreamActive, proxySampleRate,
                   workerSampleRate, ringSampleRate>>

cfg_activateStream ==
    /\ cfgStreams /\ ~cfgStreamActive
    /\ cfgStreamActive' = TRUE
    /\ cfgOp' = Call("activateStream", "", 0, "none", "ok")
    /\ UNCHANGED <<rspDuoDual, agcEnable, gRdB, LNAstate, desired_if_gr,
                   desired_lna_state, fsHz, ifType, decimation, bwType,
                   cfgBufferThreshold, cfgStreams, cfgReset, proxySampleRate,
                   workerSampleRate, ringSampleRate>>

\* Streaming.cpp:838-850: the consumer's next read drains the ring and clears reset
cfg_readStream ==
    /\ cfgReset
    /\ cfgReset' = FALSE
    /\ cfgOp' = Call("readStream", "", 0, "none", "ok")
    /\ UNCHANGED <<rspDuoDual, agcEnable, gRdB, LNAstate, desired_if_gr,
                   desired_lna_state, fsHz, ifType, decimation, bwType,
                   cfgBufferThreshold, cfgStreamActive, cfgStreams, proxySampleRate,
                   workerSampleRate, ringSampleRate>>

\* the update named in a call is made only while streaming (Gain.cpp:256,
\* SampleRate.cpp:96); otherwise the outcome drawn for it is not used
UpdateMade(due, outcome) == IF due /\ cfgStreamActive THEN outcome ELSE "none"

\* SoapySDRPlay::setGainMode, Gain.cpp:189-203
cfg_setGainMode(automatic, outcome) ==
    LET agc_control == IF automatic THEN "AGC_CTRL_EN" ELSE "AGC_DISABLE"
    IN  /\ agcEnable' = agc_control
        /\ cfgOp' = Call("setGainMode", "", 0,
                         UpdateMade(agcEnable # agc_control, outcome), "ok")
        /\ UNCHANGED <<rspDuoDual, gRdB, LNAstate, desired_if_gr, desired_lna_state,
                       fsHz, ifType, decimation, bwType, cfgBufferThreshold,
                       cfgStreamActive, cfgStreams, cfgReset, proxySampleRate,
                       workerSampleRate, ringSampleRate>>

IfgrWritable_always(agc) == TRUE
\* Gain.cpp:220: an IFGR write is taken only with the AGC disabled
IfgrWritable(agc) == agc = "AGC_DISABLE"

\* SoapySDRPlay::setGain(direction, channel, name, value), Gain.cpp:212-261
cfg_setGain(name, value, outcome) ==
    /\ IF name = "IFGR"
       THEN /\ IF IfgrWritable(agcEnable)
               THEN desired_if_gr' = value /\ gRdB' = value
               ELSE UNCHANGED <<desired_if_gr, gRdB>>
            /\ UNCHANGED <<desired_lna_state, LNAstate>>
       ELSE /\ desired_lna_state' = value /\ LNAstate' = value
            /\ UNCHANGED <<desired_if_gr, gRdB>>
    /\ cfgOp' = Call("setGain", name, value,
                     UpdateMade(gRdB' # gRdB \/ LNAstate' # LNAstate, outcome), "ok")
    /\ UNCHANGED <<rspDuoDual, agcEnable, fsHz, ifType, decimation, bwType,
                   cfgBufferThreshold, cfgStreamActive, cfgStreams, cfgReset,
                   proxySampleRate, workerSampleRate, ringSampleRate>>

\* SoapySDRPlay::setGain(direction, channel, value), Gain.cpp:298-372: the search
\* of the gain tables ends in a pair bestLnaState, bestIfGr
cfg_setGainOverall(bestLnaState, bestIfGr, outcome) ==
    /\ desired_lna_state' = bestLnaState
    /\ desired_if_gr' = bestIfGr
    /\ LNAstate' = bestLnaState
    /\ gRdB' = (IF IfgrWritable(agcEnable) THEN bestIfGr ELSE gRdB)
    /\ cfgOp' = Call("setGainOverall", "", bestIfGr, UpdateMade(TRUE, outcome), "ok")
    /\ UNCHANGED <<rspDuoDual, agcEnable, fsHz, ifType, decimation, bwType,
                   cfgBufferThreshold, cfgStreamActive, cfgStreams, cfgReset,
                   proxySampleRate, workerSampleRate, ringSampleRate>>

\* the body of SoapySDRPlay::setSampleRate, SampleRate.cpp:38-104: what it does
\* to the parameters; due tells whether an update is called for
SampleRateEffect(output_sample_rate) ==
    LET in == getInputSampleRateAndDecimation(output_sample_rate, rspDuoDual)
        bw == getBwEnumForRate(output_sample_rate)
        newDecimation == [enable |-> in.decEnable, decimationFactor |-> in.decM,
                          wideBandSignal |-> IF in.ifType = "IF_Zero" THEN 1 ELSE 0]
        decChanged == in.decM # decimation.decimationFactor
        due == \/ in.fs # fsHz \/ in.ifType # ifType \/ decChanged \/ bw # bwType
    IN  IF in.fs < 0
        THEN [fsHz |-> fsHz, ifType |-> ifType, decimation |-> decimation,
              bwType |-> bwType, threshold |-> cfgBufferThreshold,
              reset |-> cfgReset, due |-> FALSE, valid |-> FALSE]
        ELSE [fsHz |-> in.fs, ifType |-> in.ifType,
              decimation |-> IF decChanged THEN newDecimation ELSE decimation,
              bwType |-> bw,
              threshold |-> IF decChanged THEN bufferLength \div in.decM
                            ELSE cfgBufferThreshold,
              reset |-> IF due /\ cfgStreams THEN TRUE ELSE cfgReset,
              due |-> due, valid |-> TRUE]

ApplySampleRate(e) ==
    /\ fsHz' = e.fsHz /\ ifType' = e.ifType /\ decimation' = e.decimation
    /\ bwType' = e.bwType /\ cfgBufferThreshold' = e.threshold /\ cfgReset' = e.reset

\* SoapySDRPlay::setSampleRate called by the application: it returns nothing
cfg_setSampleRate(output_sample_rate, outcome) ==
    LET e == SampleRateEffect(output_sample_rate)
    IN  /\ ApplySampleRate(e)
        /\ cfgOp' = Call("setSampleRate", "", output_sample_rate,
                         UpdateMade(e.due, outcome), "ok")
        /\ UNCHANGED <<rspDuoDual, agcEnable, gRdB, LNAstate, desired_if_gr,
                       desired_lna_state, cfgStreamActive, cfgStreams,
                       proxySampleRate, workerSampleRate, ringSampleRate>>

\* SoapySDRPlayProxy::setSampleRate (SoapySDRPlayProxy.cpp:790-807) with a
\* worker that is ready and holds the device: the proxy caches the rate and
\* sends the command, SoapySDRPlayWorker::handleSetSampleRate
\* (SoapySDRPlayWorker.cpp:405-427) caches it, calls the device, sets the rate
\* of the ring and acknowledges
cfg_proxy_setSampleRate(rate, outcome) ==
    LET e == SampleRateEffect(rate)
    IN  /\ proxySampleRate' = rate
        /\ workerSampleRate' = rate
        /\ ApplySampleRate(e)
        /\ ringSampleRate' = rate
        /\ cfgOp' = Call("proxy_setSampleRate", "", rate,
                         UpdateMade(e.due, outcome), "ok")
        /\ UNCHANGED <<rspDuoDual, agcEnable, gRdB, LNAstate, desired_if_gr,
                       desired_lna_state, cfgStreamActive, cfgStreams>>

(***************************************************************************)
(* Device sessions of one process (DeviceControl.cpp): the constructor and *)
(* the destructor of SoapySDRPlay, the set of claimed keys and the map of  *)
(* selected devices                                                        *)
(***************************************************************************)
MaxSessions == 3
Sessions == 1 .. MaxSessions
\* serial numbers with their RSPduo mode, the key of a session
SessionKeys == {"A", "B@MA"}
NoSession == 0

VARIABLES
    sessionKey,           \* cacheKey of every SoapySDRPlay object, "" when there is none
    claimedSerials,       \* the set of SoapySDRPlay_getClaimedSerials
    selectedDevices,   \* SoapySDRPlay::selectedRSPDevices: key -> the object whose device it is
    deviceSelected,       \* the vendor API has the device of the object selected
    sessionOp             \* the last constructor or destructor call

dvars == <<sessionKey, claimedSerials, selectedDevices, deviceSelected, sessionOp>>

\* DeviceControl.cpp:35-42: nothing is selected or claimed when the module is loaded
InitSessions ==
    /\ sessionKey = [s \in Sessions |-> ""]
    /\ claimedSerials = {}
    /\ selectedDevices = [k \in SessionKeys |-> NoSession]
    /\ deviceSelected = [s \in Sessions |-> FALSE]
    /\ sessionOp = [name |-> "init", session |-> NoSession, key |-> "",
                    claimed |-> FALSE, result |-> "ok"]

\* SoapySDRPlay::selectDevice, DeviceControl.cpp:224-236: a device selected under
\* the same id, by whichever object, is released and taken off the map
ReleaseSelected(key) ==
    [s \in Sessions |-> IF selectedDevices[key] = s THEN FALSE ELSE deviceSelected[s]]

\* SoapySDRPlay::SoapySDRPlay, DeviceControl.cpp:48-100: selectDevice, then the
\* key is put into the set of claimed keys; selectOk tells whether the vendor
\* finds and selects the device (the constructor throws when it does not)
SoapySDRPlay_ctor(s, key, selectOk) ==
    /\ sessionKey[s] = ""
    /\ sessionOp' = [name |-> "ctor", session |-> s, key |-> key,
                     claimed |-> key \in claimedSerials,
                     result |-> IF selectOk THEN "ok" ELSE "error"]
    /\ IF selectOk
       THEN /\ deviceSelected' = [ReleaseSelected(key) EXCEPT ![s] = TRUE]
            /\ selectedDevices' = [selectedDevices EXCEPT ![key] = s]
            /\ sessionKey' = [sessionKey EXCEPT ![s] = key]
            /\ claimedSerials' = claimedSerials \cup {key}
       ELSE /\ deviceSelected' = ReleaseSelected(key)
            /\ selectedDevices' = [selectedDevices EXCEPT ![key] = NoSession]
            /\ UNCHANGED <<sessionKey, claimedSerials>>

\* SoapySDRPlay::~SoapySDRPlay and releaseDevice, DeviceControl.cpp:102-113 and
\* 395-419: the key is erased from the claimed set; the device is released when
\* the map still names this object
SoapySDRPlay_dtor(s) ==
    /\ sessionKey[s] # ""
    /\ LET key == sessionKey[s]
       IN  /\ sessionOp' = [name |-> "dtor", session |-> s, key |-> key,
                            claimed |-> key \in claimedSerials, result |-> "ok"]
           /\ claimedSerials' = claimedSerials \ {key}
           /\ IF selectedDevices[key] = s
              THEN /\ selectedDevices' = [selectedDevices EXCEPT ![key] = NoSession]
                   /\ deviceSelected' = [deviceSelected EXCEPT ![s] = FALSE]
              ELSE UNCHANGED <<selectedDevices, deviceSelected>>
           /\ sessionKey' = [sessionKey EXCEPT ![s] = ""]

(***************************************************************************)
(* The bandwidth mapping as a function of the output rate                  *)
(* (SoapySDRPlay::test_getBwEnumForRate, tests/test_main.cpp:100-126)      *)
(***************************************************************************)
\* the rates on both sides of every threshold, the smallest and the largest
\* rate of the driver, zero and a negative rate
BwRates == {-1, 0, 62500, 299999, 300000, 599999, 600000, 1535999, 1536000,
            4999999, 5000000, 5999999, 6000000, 6999999, 7000000, 7999999,
            8000000, 10000000, 10660000}
BwEnums == {"BW_0_200", "BW_0_300", "BW_0_600", "BW_1_536", "BW_5_000", "BW_6_000",
            "BW_7_000", "BW_8_000"}

VARIABLES
    bwRates,              \* a pair of output rates
    bwResults             \* the mapping of each, once computed

bvars == <<bwRates, bwResults>>

InitBw ==
    /\ bwRates \in BwRates \X BwRates
    /\ bwResults = <<>>

\* the mapping is computed for both rates
bw_getBwEnumForRate ==
    /\ bwResults = <<>>
    /\ bwResults' = <<getBwEnumForRate(bwRates[1]), getBwEnumForRate(bwRates[2])>>
    /\ UNCHANGED bwRates

\* another pair of rates is taken
bw_next(rate1, rate2) ==
    /\ bwResults # <<>>
    /\ bwRates' = <<rate1, rate2>>
    /\ bwResults' = <<>>

(***************************************************************************)
(* The shared ring the proxy owns and the ring pointers of its stream      *)
(* handles: SoapySDRPlayProxy.cpp, SoapySDRPlayProxy.hpp                   *)
(*                                                                         *)
(* A ring is named by the number of its creation; ringBuffer_ is a         *)
(* unique_ptr, so the ring it held is destroyed whenever it is reset.      *)
(***************************************************************************)
\* rings the proxy creates
MaxRings == 3
\* stream handles the host opens
ProxyHandles == {"h1", "h2"}
\* how ensureWorker and the Configure after it end: the worker is configured,
\* spawn fails, the worker does not become ready, or Configure is not confirmed
WorkerStarts == {"ok", "spawnFailed", "notReady", "configureFailed"}

VARIABLES
    ringBuffer_,        \* SoapySDRPlayProxy::ringBuffer_: the ring it holds, 0 for none
    ringsCreated,       \* rings created so far
    ringWorkerReady,    \* SoapySDRPlayProxy::workerReady_
    handleRing,         \* per handle: whether it is open, and its
                        \* SoapySDRPlayProxyStream::ringBuffer
    ringUse             \* the last use of a handle's ring pointer: the handle, the
                        \* ring it pointed to and the ring the proxy held

qvars == <<ringBuffer_, ringsCreated, ringWorkerReady, handleRing, ringUse>>

NoRingUse == [h |-> "none", ring |-> 0, held |-> 0]

\* SoapySDRPlayProxy::SoapySDRPlayProxy, SoapySDRPlayProxy.cpp:39-47
InitRings ==
    /\ ringBuffer_ = 0
    /\ ringsCreated = 0
    /\ ringWorkerReady = FALSE
    /\ handleRing = [h \in ProxyHandles |-> [open |-> FALSE, ring |-> 0]]
    /\ ringUse = NoRingUse

\* SoapySDRPlayProxy::ensureWorker, SoapySDRPlayProxy.cpp:77-127: nothing when
\* the worker is ready; else a new ring replaces the one held (line 97), and is
\* let go again when the worker does not start (lines 108, 119)
ensureWorker_ring(ready, current, created, start) ==
    IF ready THEN current
    ELSE IF start \in {"spawnFailed", "notReady"} THEN 0
    ELSE created + 1

\* workerReady_ after ensureWorker, SoapySDRPlayProxy.cpp:79-124
ensureWorker_ready(ready, start) ==
    ready \/ start \in {"ok", "configureFailed"}

\* SoapySDRPlayProxy::setupStream, SoapySDRPlayProxy.cpp:316-382: the handle is
\* made, with the ring the proxy holds, once Configure is confirmed
ring_setupStream(h, start) ==
    /\ ~handleRing[h].open
    /\ ringWorkerReady \/ ringsCreated < MaxRings
    /\ ringBuffer_' = ensureWorker_ring(ringWorkerReady, ringBuffer_, ringsCreated, start)
    /\ ringsCreated' = (IF ringWorkerReady THEN ringsCreated ELSE ringsCreated + 1)
    /\ ringWorkerReady' = ensureWorker_ready(ringWorkerReady, start)
    /\ handleRing' = (IF ringWorkerReady' /\ start # "configureFailed"
                      THEN [handleRing EXCEPT ![h] = [open |-> TRUE, ring |-> ringBuffer_']]
                      ELSE handleRing)
    /\ UNCHANGED ringUse

\* SoapySDRPlayProxy::readStream, SoapySDRPlayProxy.cpp:440-545, and
\* acquireReadBuffer / releaseReadBuffer, SoapySDRPlayProxy.cpp:558-602: the
\* handle's ring pointer is used; the worker is not restarted
ring_readStream(h) ==
    /\ handleRing[h].open
    /\ ringUse' = [h |-> h, ring |-> handleRing[h].ring, held |-> ringBuffer_]
    /\ UNCHANGED <<ringBuffer_, ringsCreated, ringWorkerReady, handleRing>>

\* SoapySDRPlayProxy::readStream, SoapySDRPlayProxy.cpp:517-519: the line after
\* restartWorker is reached when restartWorker did not throw; a Start that fails
\* is only logged (SoapySDRPlayProxy.cpp:189-192)
UpdatesHandle(start) == start = "ok"

\* SoapySDRPlayProxy::readStream, SoapySDRPlayProxy.cpp:505-522, the read that
\* finds the ring stalled for the MAX_STALE_READS-th time, with restartWorker,
\* SoapySDRPlayProxy.cpp:130-200: the ring is used, then destroyed, and the
\* reading handle gets the new ring when restartWorker returns
ring_readStream_stalled(h, start) ==
    /\ handleRing[h].open
    /\ ringsCreated < MaxRings
    /\ ringUse' = [h |-> h, ring |-> handleRing[h].ring, held |-> ringBuffer_]
    /\ ringBuffer_' = ensureWorker_ring(FALSE, 0, ringsCreated, start)
    /\ ringsCreated' = ringsCreated + 1
    /\ ringWorkerReady' = ensureWorker_ready(FALSE, start)
    /\ handleRing' = (IF UpdatesHandle(start)
                      THEN [handleRing EXCEPT ![h] = [open |-> TRUE, ring |-> ringBuffer_']]
                      ELSE handleRing)

\* SoapySDRPlayProxy::closeStream, SoapySDRPlayProxy.cpp:384-398
ring_closeStream(h) ==
    /\ handleRing[h].open
    /\ handleRing' = [handleRing EXCEPT ![h] = [open |-> FALSE, ring |-> 0]]
    /\ UNCHANGED <<ringBuffer_, ringsCreated, ringWorkerReady, ringUse>>

(***************************************************************************)
(* Stream handles and the reference count of channel 0 (Streaming.cpp)     *)
(*                                                                         *)
(* A handle is one SoapySDR::Stream pointer returned by setupStream. The   *)
(* application calls setupStream, activateStream, deactivateStream and     *)
(* closeStream on its handles, each call from entry to return              *)
(* (activateStream and closeStream hold _general_state_mutex throughout),  *)
(* and closes a handle at most once.                                       *)
(***************************************************************************)
\* handles the application asks for
MaxHandles == 2
\* stream objects that can be allocated
MaxObjects == 2
\* activateStream calls explored
MaxActivateCalls == 3

StreamHandles == 1 .. MaxHandles
StreamObjects == 1 .. MaxObjects

VARIABLES
    refSlot,            \* _streams[0]: nullptr or a stream object
    refCount,           \* _streamsRefCount[0]
    refStreamActive,    \* streamActive
    refObjs,            \* every stream object: "unallocated", "live" or "freed"
    refHandles,         \* every handle: its state, its object, what was called on it
    refActivateCalls    \* activateStream calls made so far

kvars == <<refSlot, refCount, refStreamActive, refObjs, refHandles, refActivateCalls>>

NoHandle == [state |-> "none", obj |-> nullptr, activated |-> FALSE, running |-> FALSE]

\* DeviceControl.cpp:52-57: no stream, no reference, not streaming
InitRefs ==
    /\ refSlot = nullptr /\ refCount = 0 /\ refStreamActive = FALSE
    /\ refObjs = [o \in StreamObjects |-> "unallocated"]
    /\ refHandles = [h \in StreamHandles |-> NoHandle]
    /\ refActivateCalls = 0

\* Streaming.cpp:426-435: the stream of the slot, or a new one when the slot is
\* empty; the new stream is not stored in the slot
setupStream_object(slot, objects) ==
    IF slot # nullptr
    THEN slot
    ELSE IF \E o \in StreamObjects : objects[o] = "unallocated"
         THEN CHOOSE o \in StreamObjects :
                 /\ objects[o] = "unallocated"
                 /\ \A r \in StreamObjects : objects[r] = "unallocated" => o <= r
         ELSE nullptr

\* SoapySDRPlay::setupStream, Streaming.cpp:380-435: refused while streaming
ref_setupStream(h) ==
    /\ refHandles[h].state = "none"
    /\ \A g \in StreamHandles : refHandles[g].state = "none" => h <= g
    /\ ~refStreamActive
    /\ LET o == setupStream_object(refSlot, refObjs)
       IN  /\ o # nullptr
           /\ refObjs' = [refObjs EXCEPT ![o] = "live"]
           /\ refHandles' = [refHandles EXCEPT ![h] =
                                [state |-> "open", obj |-> o,
                                 activated |-> FALSE, running |-> FALSE]]
    /\ UNCHANGED <<refSlot, refCount, refStreamActive, refActivateCalls>>

\* Streaming.cpp:552-560: every call stores the stream in the slot and adds one
\* reference
activateStream_count(n) == n + 1

\* SoapySDRPlay::activateStream, Streaming.cpp:537-654: publish and count the
\* stream; done when the device is streaming; otherwise sdrplay_api_Init, and
\* on its failure (592-612) the reference is taken back and the call fails
ref_activateStream(h, initOk) ==
    /\ refHandles[h].state = "open"
    /\ refObjs[refHandles[h].obj] = "live"
    /\ refActivateCalls < MaxActivateCalls
    /\ refActivateCalls' = refActivateCalls + 1
    /\ LET o == refHandles[h].obj
           counted == activateStream_count(refCount)
       IN  IF refStreamActive \/ initOk
           THEN /\ refSlot' = o
                /\ refCount' = counted
                /\ refStreamActive' = TRUE
                /\ refHandles' = [refHandles EXCEPT ![h].activated = TRUE,
                                                    ![h].running = TRUE]
           ELSE /\ refCount' = counted - 1
                /\ refSlot' = (IF counted - 1 = 0 THEN nullptr ELSE o)
                /\ UNCHANGED <<refStreamActive, refHandles>>
    /\ UNCHANGED refObjs

\* SoapySDRPlay::deactivateStream, Streaming.cpp:659-668: nothing of the device
\* changes; the application takes the handle as stopped
ref_deactivateStream(h) ==
    /\ refHandles[h].state = "open"
    /\ refHandles[h].running
    /\ refHandles' = [refHandles EXCEPT ![h].running = FALSE]
    /\ UNCHANGED <<refSlot, refCount, refStreamActive, refObjs, refActivateCalls>>

\* SoapySDRPlay::closeStream, Streaming.cpp:438-529: when the slot holds this
\* stream drop one reference and, with the last one, clear the slot and delete
\* the stream; stop the device when no reference is left
ref_closeStream(h) ==
    /\ refHandles[h].state = "open"
    /\ LET o == refHandles[h].obj
           match == refSlot = o
           refs == IF match THEN refCount - 1 ELSE refCount
           deleteStream == match /\ refs = 0
       IN  /\ refCount' = refs
           /\ refSlot' = (IF deleteStream THEN nullptr ELSE refSlot)
           /\ refStreamActive' = (IF refs = 0 THEN FALSE ELSE refStreamActive)
           /\ refObjs' = (IF deleteStream THEN [refObjs EXCEPT ![o] = "freed"]
                          ELSE refObjs)
           /\ refHandles' = [refHandles EXCEPT ![h].state = "closed",
                                               ![h].running = FALSE]
    /\ UNCHANGED refActivateCalls

(***************************************************************************)
(* Mutexes of one session and the threads that take them: Streaming.cpp,   *)
(* SampleRate.cpp, Gain.cpp, Antenna.cpp, HealthMonitor.cpp                *)
(*                                                                         *)
(* An application thread calls setupStream, activateStream, setGain,       *)
(* triggerRecovery and closeStream; a second application thread calls      *)
(* readStream; activateStream starts the watchdog thread.  Each function   *)
(* is the sequence of its lock, unlock and state steps in program order.   *)
(***************************************************************************)
LkThreads == {"app", "reader", "wd"}
\* SoapySDRPlay.hpp:535-622: _general_state_mutex, _streams_mutex, the stream's
\* mutex and readStreamMutex, settingsCacheMutex, healthInfoMutex, update_mutex,
\* api_update_mutex; "gate" is the lock of sdrplay_api_LockDeviceApi
Mutexes == {"general", "streams", "stream", "read", "settingsCache", "healthInfo",
            "update", "api_update", "gate"}

LkStep(k, m, skip) == [k |-> k, m |-> m, skip |-> skip]
LkLock(m) == LkStep("lock", m, 0)
LkUnlock(m) == LkStep("unlock", m, 0)
LkDo(k) == LkStep(k, "none", 0)
NoLkStep == LkDo("none")

\* SoapySDRPlay::setupStream, Streaming.cpp:426-435
Locks_setupStream == <<LkLock("streams"), LkUnlock("streams"), LkDo("new")>>

\* SoapySDRPlay::activateStream, Streaming.cpp:552-640, the first activation
Locks_activateStream ==
    <<LkLock("general"), LkLock("streams"), LkDo("publish"), LkUnlock("streams"),
      LkLock("gate"), LkUnlock("gate"), LkLock("gate"), LkUnlock("gate"),
      LkDo("active"), LkLock("streams"), LkUnlock("streams"), LkUnlock("general"),
      LkDo("startWatchdog")>>

\* SoapySDRPlay::executeApiUpdate with a change flag, SampleRate.cpp:326-364:
\* try_lock_for on api_update_mutex (the update is skipped when it fails), the
\* guard of the gate which lives to the end of the function, and the wait on
\* update_cv under update_mutex
Locks_executeApiUpdate ==
    <<LkStep("try", "api_update", 5), LkLock("gate"), LkLock("update"),
      LkUnlock("update"), LkUnlock("gate"), LkUnlock("api_update")>>

\* SoapySDRPlay::setGain while streaming, Gain.cpp:212-260
Locks_setGain == <<LkLock("general")>> \o Locks_executeApiUpdate \o <<LkUnlock("general")>>

\* SoapySDRPlay::readStream, Streaming.cpp:689-765 (with acquireReadBuffer,
\* Streaming.cpp:827): the slot is looked up under _streams_mutex, then the
\* stream's readStreamMutex is held to the end and the stream's mutex is taken
\* inside it
Locks_readStream ==
    <<LkLock("streams"), LkDo("slot"), LkUnlock("streams"), LkStep("ifFound", "none", 5),
      LkLock("read"), LkLock("stream"), LkUnlock("stream"), LkDo("copy"), LkUnlock("read")>>

\* SoapySDRPlay::closeStream of the only activated handle, Streaming.cpp:438-502
Locks_closeStream ==
    <<LkLock("general"), LkLock("streams"), LkDo("drop"), LkLock("stream"),
      LkUnlock("streams"), LkUnlock("stream"), LkLock("read"), LkUnlock("read"),
      LkDo("shutdown"), LkDo("join"), LkLock("gate"), LkUnlock("gate"),
      LkDo("inactive"), LkDo("delete"), LkUnlock("general")>>

\* SoapySDRPlay::updateHealthStatus, HealthMonitor.cpp:50-65
Locks_updateHealthStatus == <<LkLock("healthInfo"), LkUnlock("healthInfo")>>

\* SoapySDRPlay::getAntenna, Antenna.cpp:534-601
Locks_getAntenna == <<LkLock("general"), LkUnlock("general")>>

\* SoapySDRPlay::saveCurrentSettings, HealthMonitor.cpp:102-175: both guards
\* live to the end of the function, getAntenna is called at line 169
Locks_saveCurrentSettings ==
    <<LkLock("settingsCache"), LkLock("general")>> \o Locks_getAntenna
        \o <<LkUnlock("general"), LkUnlock("settingsCache")>>

\* SoapySDRPlay::attemptStreamRecovery, HealthMonitor.cpp:409-486
Locks_attemptStreamRecovery ==
    <<LkStep("recoveryBegin", "none",
             3 * Len(Locks_updateHealthStatus) + Len(Locks_saveCurrentSettings) + 3)>>
        \o Locks_updateHealthStatus \o Locks_saveCurrentSettings
        \o <<LkLock("streams"), LkUnlock("streams")>> \o Locks_updateHealthStatus
        \o <<LkDo("recoveryEnd")>> \o Locks_updateHealthStatus

\* SoapySDRPlay::watchdogThreadFunc, HealthMonitor.cpp:305-348: a tick that
\* finds a stale stream, with auto-recover on and the backoff over
Locks_tick_stale ==
    <<LkLock("streams"), LkUnlock("streams")>> \o Locks_updateHealthStatus
        \o Locks_attemptStreamRecovery

\* SoapySDRPlay::watchdogThreadFunc, HealthMonitor.cpp:305-362: a tick that
\* finds the callbacks arriving
Locks_tick_healthy ==
    <<LkLock("streams"), LkUnlock("streams"), LkLock("healthInfo"), LkLock("streams"),
      LkUnlock("streams"), LkUnlock("healthInfo")>> \o Locks_updateHealthStatus

LkOps == {"setupStream", "activateStream", "setGain", "readStream", "closeStream",
          "triggerRecovery", "tick_stale", "tick_healthy"}

LkStepsOf(o) ==
    CASE o = "setupStream" -> Locks_setupStream
      [] o = "activateStream" -> Locks_activateStream
      [] o = "setGain" -> Locks_setGain
      [] o = "readStream" -> Locks_readStream
      [] o = "closeStream" -> Locks_closeStream
      [] o = "triggerRecovery" -> Locks_attemptStreamRecovery
      [] o = "tick_stale" -> Locks_tick_stale
      [] o = "tick_healthy" -> Locks_tick_healthy

VARIABLES
    lkOwner,             \* per mutex: the thread that holds it, or "none"
    lkHeld,              \* per thread: the mutexes it holds, in the order taken
    lkOp,                \* per thread: the function it runs, or "none"
    lkPc,                \* per thread: its next step in that function
    lkObj,               \* the SoapySDRPlayStream: "none", "live" or "freed"
    lkSlot,              \* _streams[channel] # nullptr
    lkFound,             \* readStream: the slot was not null when it was looked up
    lkStreamActive,      \* streamActive
    lkWatchdogRunning,   \* watchdogRunning
    lkWatchdogShutdown,  \* watchdogShutdown
    lkWatchdogThread,    \* the watchdog thread: "none", "running" or "exited"
    lkRecoveryInProgress,\* recoveryInProgress
    lkFreedUse,          \* a thread has used the stream object after its delete
    lkTerminated         \* std::terminate was called

lvars == <<lkOwner, lkHeld, lkOp, lkPc, lkObj, lkSlot, lkFound, lkStreamActive,
           lkWatchdogRunning, lkWatchdogShutdown, lkWatchdogThread,
           lkRecoveryInProgress, lkFreedUse, lkTerminated>>

\* SoapySDRPlay::SoapySDRPlay, DeviceControl.cpp:48-107: no stream, no watchdog
InitLocks ==
    /\ lkOwner = [m \in Mutexes |-> "none"]
    /\ lkHeld = [t \in LkThreads |-> <<>>]
    /\ lkOp = [t \in LkThreads |-> "none"]
    /\ lkPc = [t \in LkThreads |-> 1]
    /\ lkObj = "none"
    /\ lkSlot = FALSE
    /\ lkFound = FALSE
    /\ lkStreamActive = FALSE
    /\ lkWatchdogRunning = FALSE
    /\ lkWatchdogShutdown = FALSE
    /\ lkWatchdogThread = "none"
    /\ lkRecoveryInProgress = FALSE
    /\ lkFreedUse = FALSE
    /\ lkTerminated = FALSE

\* the step thread t is about to take
LkNext(t) ==
    IF lkOp[t] # "none" /\ lkPc[t] <= Len(LkStepsOf(lkOp[t]))
    THEN LkStepsOf(lkOp[t])[lkPc[t]] ELSE NoLkStep

\* the thread goes n steps on, or returns past the last step
LkAdvance(t, n) ==
    LET last == lkPc[t] + n > Len(LkStepsOf(lkOp[t]))
    IN  /\ lkPc' = [lkPc EXCEPT ![t] = IF last THEN 1 ELSE @ + n]
        /\ lkOp' = [lkOp EXCEPT ![t] = IF last THEN "none" ELSE @]

\* the mutexes that are members of the stream object
InStreamObject(m) == m \in {"stream", "read"}

\* the application calls a function of the session; it reads a stream only while
\* the stream is active and closeStream has not been called
lk_call(t, o) ==
    /\ lkOp[t] = "none"
    /\ \/ t = "app" /\ o = "setupStream" /\ lkObj = "none"
       \/ t = "app" /\ o = "activateStream" /\ lkObj = "live" /\ ~lkSlot
       \/ t = "app" /\ o = "closeStream" /\ lkObj = "live" /\ lkSlot
       \/ t = "app" /\ o \in {"setGain", "triggerRecovery"} /\ lkStreamActive
       \/ t = "reader" /\ o = "readStream" /\ lkStreamActive /\ lkObj = "live"
             /\ lkOp["app"] # "closeStream"
    /\ lkOp' = [lkOp EXCEPT ![t] = o]
    /\ lkPc' = [lkPc EXCEPT ![t] = 1]
    /\ UNCHANGED <<lkOwner, lkHeld, lkObj, lkSlot, lkFound, lkStreamActive,
                   lkWatchdogRunning, lkWatchdogShutdown, lkWatchdogThread,
                   lkRecoveryInProgress, lkFreedUse, lkTerminated>>

\* std::mutex::lock of a mutex the thread does not hold: it waits until the
\* mutex is free; a mutex inside a deleted stream is used after its delete
lk_lock(t) ==
    LET s == LkNext(t)
    IN  /\ s.k = "lock"
        /\ lkOwner[s.m] = "none"
        /\ lkOwner' = [lkOwner EXCEPT ![s.m] = t]
        /\ lkHeld' = [lkHeld EXCEPT ![t] = Append(@, s.m)]
        /\ lkFreedUse' = (lkFreedUse \/ (InStreamObject(s.m) /\ lkObj = "freed"))
        /\ LkAdvance(t, 1)
        /\ UNCHANGED <<lkObj, lkSlot, lkFound, lkStreamActive, lkWatchdogRunning,
                       lkWatchdogShutdown, lkWatchdogThread, lkRecoveryInProgress,
                       lkTerminated>>

\* std::mutex::lock of a mutex the thread holds is undefined: the thread either
\* waits for ever (no step) or std::system_error is thrown.  The exception unwinds
\* the function and releases the guards; nothing catches it in the watchdog
\* thread, where it ends the process
lk_relock_throws(t) ==
    LET s == LkNext(t)
    IN  /\ s.k = "lock"
        /\ lkOwner[s.m] = t
        /\ lkOwner' = [m \in Mutexes |-> IF lkOwner[m] = t THEN "none" ELSE lkOwner[m]]
        /\ lkHeld' = [lkHeld EXCEPT ![t] = <<>>]
        /\ lkOp' = [lkOp EXCEPT ![t] = "none"]
        /\ lkPc' = [lkPc EXCEPT ![t] = 1]
        /\ lkTerminated' = (t = "wd")
        /\ UNCHANGED <<lkObj, lkSlot, lkFound, lkStreamActive, lkWatchdogRunning,
                       lkWatchdogShutdown, lkWatchdogThread, lkRecoveryInProgress,
                       lkFreedUse>>

\* std::timed_mutex::try_lock_for, SampleRate.cpp:330-335
lk_try_lock(t) ==
    LET s == LkNext(t)
    IN  /\ s.k = "try"
        /\ IF lkOwner[s.m] = "none"
           THEN /\ lkOwner' = [lkOwner EXCEPT ![s.m] = t]
                /\ lkHeld' = [lkHeld EXCEPT ![t] = Append(@, s.m)]
                /\ LkAdvance(t, 1)
           ELSE /\ LkAdvance(t, 1 + s.skip)
                /\ UNCHANGED <<lkOwner, lkHeld>>
        /\ UNCHANGED <<lkObj, lkSlot, lkFound, lkStreamActive, lkWatchdogRunning,
                       lkWatchdogShutdown, lkWatchdogThread, lkRecoveryInProgress,
                       lkFreedUse, lkTerminated>>

\* the guard of a mutex goes out of scope
lk_unlock(t) ==
    LET s == LkNext(t)
    IN  /\ s.k = "unlock"
        /\ lkOwner' = [lkOwner EXCEPT ![s.m] = "none"]
        /\ lkHeld' = [lkHeld EXCEPT ![t] = SelectSeq(@, LAMBDA m : m # s.m)]
        /\ lkFreedUse' = (lkFreedUse \/ (InStreamObject(s.m) /\ lkObj = "freed"))
        /\ LkAdvance(t, 1)
        /\ UNCHANGED <<lkObj, lkSlot, lkFound, lkStreamActive, lkWatchdogRunning,
                       lkWatchdogShutdown, lkWatchdogThread, lkRecoveryInProgress,
                       lkTerminated>>

\* the steps of the stream's life: Streaming.cpp:433 (new), 557-558 (publish),
\* 614 (streamActive = true), 449-457 (drop), 499 (streamActive = false),
\* 502 (delete)
lk_stream_step(t) ==
    LET s == LkNext(t)
    IN  /\ s.k \in {"new", "publish", "active", "drop", "inactive", "delete"}
        /\ lkObj' = (CASE s.k = "new" -> "live" [] s.k = "delete" -> "freed"
                       [] OTHER -> lkObj)
        /\ lkSlot' = (CASE s.k = "publish" -> TRUE [] s.k = "drop" -> FALSE
                        [] OTHER -> lkSlot)
        /\ lkStreamActive' = (CASE s.k = "active" -> TRUE [] s.k = "inactive" -> FALSE
                                [] OTHER -> lkStreamActive)
        /\ LkAdvance(t, 1)
        /\ UNCHANGED <<lkOwner, lkHeld, lkFound, lkWatchdogRunning, lkWatchdogShutdown,
                       lkWatchdogThread, lkRecoveryInProgress, lkFreedUse,
                       lkTerminated>>

\* SoapySDRPlay::readStream, Streaming.cpp:691-698 (the look-up of the slot, and
\* the return when it was null) and 720-735 (the copy out of currentBuff)
lk_read_step(t) ==
    LET s == LkNext(t)
    IN  /\ s.k \in {"slot", "ifFound", "copy"}
        /\ lkFound' = (IF s.k = "slot" THEN lkSlot ELSE lkFound)
        /\ lkFreedUse' = (lkFreedUse \/ (s.k = "copy" /\ lkObj = "freed"))
        /\ LkAdvance(t, IF s.k = "ifFound" /\ ~lkFound THEN 1 + s.skip ELSE 1)
        /\ UNCHANGED <<lkOwner, lkHeld, lkObj, lkSlot, lkStreamActive,
                       lkWatchdogRunning, lkWatchdogShutdown, lkWatchdogThread,
                       lkRecoveryInProgress, lkTerminated>>

\* SoapySDRPlay::startWatchdog, HealthMonitor.cpp:258-268
lk_startWatchdog(t) ==
    /\ LkNext(t).k = "startWatchdog"
    /\ IF lkWatchdogRunning
       THEN UNCHANGED <<lkWatchdogRunning, lkWatchdogShutdown, lkWatchdogThread>>
       ELSE /\ lkWatchdogRunning' = TRUE
            /\ lkWatchdogShutdown' = FALSE
            /\ lkWatchdogThread' = "running"
    /\ LkAdvance(t, 1)
    /\ UNCHANGED <<lkOwner, lkHeld, lkObj, lkSlot, lkFound, lkStreamActive,
                   lkRecoveryInProgress, lkFreedUse, lkTerminated>>

\* SoapySDRPlay::stopWatchdog, HealthMonitor.cpp:270-284: the flag is set, then
\* join() returns once the watchdog thread has left its function
lk_stopWatchdog(t) ==
    LET s == LkNext(t)
    IN  /\ s.k \in {"shutdown", "join"}
        /\ IF s.k = "shutdown"
           THEN /\ lkWatchdogShutdown' = (lkWatchdogRunning \/ lkWatchdogShutdown)
                /\ UNCHANGED <<lkWatchdogRunning, lkWatchdogThread>>
           ELSE /\ lkWatchdogRunning => lkWatchdogThread = "exited"
                /\ lkWatchdogRunning' = FALSE
                /\ lkWatchdogThread' = "none"
                /\ UNCHANGED lkWatchdogShutdown
        /\ LkAdvance(t, 1)
        /\ UNCHANGED <<lkOwner, lkHeld, lkObj, lkSlot, lkFound, lkStreamActive,
                       lkRecoveryInProgress, lkFreedUse, lkTerminated>>

\* SoapySDRPlay::watchdogThreadFunc, HealthMonitor.cpp:287-303: the head of the
\* loop after the sleep; the thread leaves when the shutdown flag is set and
\* checks the streams when streaming is active
watchdogThreadFunc(stale) ==
    /\ lkWatchdogThread = "running"
    /\ lkOp["wd"] = "none"
    /\ IF lkWatchdogShutdown
       THEN /\ lkWatchdogThread' = "exited"
            /\ UNCHANGED <<lkOp, lkPc>>
       ELSE /\ lkStreamActive
            /\ lkOp' = [lkOp EXCEPT !["wd"] = IF stale THEN "tick_stale" ELSE "tick_healthy"]
            /\ lkPc' = [lkPc EXCEPT !["wd"] = 1]
            /\ UNCHANGED lkWatchdogThread
    /\ UNCHANGED <<lkOwner, lkHeld, lkObj, lkSlot, lkFound, lkStreamActive,
                   lkWatchdogRunning, lkWatchdogShutdown, lkRecoveryInProgress,
                   lkFreedUse, lkTerminated>>

\* SoapySDRPlay::attemptStreamRecovery, HealthMonitor.cpp:411-413 (the exchange
\* on recoveryInProgress) and 471
lk_recovery_step(t) ==
    LET s == LkNext(t)
    IN  /\ s.k \in {"recoveryBegin", "recoveryEnd"}
        /\ lkRecoveryInProgress' = (s.k = "recoveryBegin")
        /\ LkAdvance(t, IF s.k = "recoveryBegin" /\ lkRecoveryInProgress
                        THEN 1 + s.skip ELSE 1)
        /\ UNCHANGED <<lkOwner, lkHeld, lkObj, lkSlot, lkFound, lkStreamActive,
                       lkWatchdogRunning, lkWatchdogShutdown, lkWatchdogThread,
                       lkFreedUse, lkTerminated>>

(***************************************************************************)
(* Specifications                                                          *)
(***************************************************************************)
vars == <<svars, tvars, rvars, gvars, avars, pvars, ivars, hvars, cvars, dvars, bvars, lvars, qvars, kvars>>

Init == InitStream /\ InitTeardown /\ InitRing /\ InitGate /\ InitApi /\ InitProxy /\ InitPipe /\ InitHealth /\ InitSettings /\ InitSessions /\ InitBw /\ InitLocks /\ InitRings /\ InitRefs

\* the subsystems do not share state: each is explored next to the others as
\* constructed, with one choice of their inputs
OneStream == count = 0 /\ mode = "read"
OneGate == gThreads = GateThreadsAll

\* one watchdog configuration for the specifications of the other subsystems
OneHealth == autoRecover /\ restartServiceOnFailure
\* one kind of device for the specifications of the other subsystems
OneSettings == ~rspDuoDual
\* one pair of rates for the specifications of the other subsystems
OneBw == bwRates = <<0, 0>>
InitOneStream == Init /\ OneStream /\ OneGate /\ OneHealth /\ OneSettings /\ OneBw

\* a step of the stream engine leaves teardown and shared ring as they are
OutsideStream == UNCHANGED <<tvars, rvars, gvars, avars, pvars, ivars, hvars, cvars, dvars, bvars, lvars, qvars, kvars>>
StreamNext ==
    \/ (\E numSamples \in 1 .. MaxBurst : rx_callback(numSamples)) /\ OutsideStream
    \/ ev_callback_DeviceRemoved /\ OutsideStream
    \/ (\E decM \in DecFactors : setSampleRate(decM)) /\ OutsideStream
    \/ activateStream /\ OutsideStream
    \/ acquireReadBuffer /\ OutsideStream
    \/ acquireReadBuffer_wake /\ OutsideStream
    \/ acquireReadBuffer_timeout /\ OutsideStream
    \/ (\E handle \in Handles : releaseReadBuffer(handle)) /\ OutsideStream
    \/ (\E numElems \in 1 .. BufElems : readStream(numElems)) /\ OutsideStream
    \/ readStream_wake /\ OutsideStream
    \/ readStream_timeout /\ OutsideStream
    \/ readStream_copy /\ OutsideStream
    \/ readStream_release /\ OutsideStream

\* every way the stream engine is constructed, next to the other subsystems
InitEveryStream == Init /\ OneGate /\ OneHealth /\ OneSettings /\ OneBw
SpecStream == InitEveryStream /\ [][StreamNext]_vars

\* a step of the teardown leaves stream engine and shared ring as they are
OutsideTeardown == UNCHANGED <<svars, rvars, gvars, avars, pvars, ivars, hvars, cvars, dvars, bvars, lvars, qvars, kvars>>
TeardownNext ==
    \/ rx_callback_A_enter /\ OutsideTeardown
    \/ rx_callback_A_lockStream /\ OutsideTeardown
    \/ rx_callback_A_return /\ OutsideTeardown
    \/ setupStream /\ OutsideTeardown
    \/ (\E s \in StreamIds : activateStream_publish(s)) /\ OutsideTeardown
    \/ activateStream_initOk /\ OutsideTeardown
    \/ activateStream_initFailed /\ OutsideTeardown
    \/ (\E s \in StreamIds : closeStream(s)) /\ OutsideTeardown
    \/ closeStream_lockStream /\ OutsideTeardown
    \/ closeStream_uninit /\ OutsideTeardown
    \/ closeStream_delete /\ OutsideTeardown

SpecTeardown == InitOneStream /\ [][TeardownNext]_vars

\* a step of the shared ring leaves stream engine and teardown as they are
OutsideRing == UNCHANGED <<svars, tvars, gvars, avars, pvars, ivars, hvars, cvars, dvars, bvars, lvars, qvars, kvars>>
RingNext ==
    \/ (\E k \in 1 .. MaxRequest : write_begin(k)) /\ OutsideRing
    \/ write_commit /\ OutsideRing
    \/ (\E numElems \in 1 .. RingSamples : proxy_readStream(numElems)) /\ OutsideRing
    \/ proxy_readStream_copied /\ OutsideRing
    \/ proxy_acquireReadBuffer /\ OutsideRing
    \/ proxy_releaseReadBuffer /\ OutsideRing
    \/ reattach /\ OutsideRing

SpecRing == InitOneStream /\ [][RingNext]_vars

\* a step of the cross-process gate leaves the other subsystems as they are
OutsideGate == UNCHANGED <<svars, tvars, rvars, avars, pvars, ivars, hvars, cvars, dvars, bvars, lvars, qvars, kvars>>
GateNext ==
    \/ (\E t \in GateThreadsAll, cooldownMs \in {0, CooldownTicks} :
           SDRplayLockGuard(t, cooldownMs)) /\ OutsideGate
    \/ (\E t \in GateThreadsAll : acquire_retry(t)) /\ OutsideGate
    \/ (\E t \in GateThreadsAll : acquire_timeout(t)) /\ OutsideGate
    \/ (\E t \in GateThreadsAll : SDRplayLockGuard_dtor(t)) /\ OutsideGate
    \/ clock_tick /\ OutsideGate

\* every choice of the threads that use the gate, next to the other subsystems
InitEveryGate == Init /\ OneStream /\ OneHealth /\ OneSettings /\ OneBw
SpecGate == InitEveryGate /\ [][GateNext]_vars

\* a step of a thread inside the device session leaves the other subsystems as
\* they are
OutsideApi == UNCHANGED <<svars, tvars, rvars, gvars, pvars, ivars, hvars, cvars, dvars, bvars, lvars, qvars, kvars>>
ApiNext ==
    \/ (\E t \in ApiThreads, o \in ApiOps : api_enter(t, o)) /\ OutsideApi
    \/ (\E t \in ApiThreads : SdrplayApiLockGuard_ctor(t)) /\ OutsideApi
    \/ (\E t \in ApiThreads : SdrplayApiLockGuard_dtor(t)) /\ OutsideApi
    \/ (\E t \in ApiThreads : api_update_try_lock(t)) /\ OutsideApi
    \/ (\E t \in ApiThreads : api_update_unlock(t)) /\ OutsideApi
    \/ (\E t \in ApiThreads : vendor_call(t)) /\ OutsideApi
    \/ (\E t \in ApiThreads : vendor_return(t)) /\ OutsideApi

SpecApi == InitOneStream /\ [][ApiNext]_vars

\* the guards alone, nested by the threads of the session
GuardNext ==
    \/ (\E t \in ApiThreads, n \in 1 .. MaxNesting : api_enter_scope(t, n)) /\ OutsideApi
    \/ (\E t \in ApiThreads : SdrplayApiLockGuard_ctor(t)) /\ OutsideApi
    \/ (\E t \in ApiThreads : SdrplayApiLockGuard_dtor(t)) /\ OutsideApi
    \/ (\E t \in ApiThreads : vendor_call(t)) /\ OutsideApi
    \/ (\E t \in ApiThreads : vendor_return(t)) /\ OutsideApi

SpecGuard == InitOneStream /\ [][GuardNext]_vars

\* a step of proxy and worker leaves the other subsystems as they are
OutsideProto == UNCHANGED <<svars, tvars, rvars, gvars, avars, ivars, hvars, cvars, dvars, bvars, lvars, qvars, kvars>>
ProtoNext ==
    \/ (\E spawnOk \in BOOLEAN : proxy_setupStream(spawnOk)) /\ OutsideProto
    \/ (\E spawnOk \in BOOLEAN : proxy_readStream_stalled(spawnOk)) /\ OutsideProto
    \/ waitForReady_receive /\ OutsideProto
    \/ waitForReady_timeout /\ OutsideProto
    \/ proxy_activateStream /\ OutsideProto
    \/ proxy_deactivateStream /\ OutsideProto
    \/ (\E cmd \in Setters : proxy_setter(cmd)) /\ OutsideProto
    \/ waitForStatus_receive /\ OutsideProto
    \/ waitForStatus_timeout /\ OutsideProto
    \/ proxy_dtor /\ OutsideProto
    \/ proxy_dtor_terminate /\ OutsideProto
    \/ (\E start \in Starts : worker_run(start)) /\ OutsideProto
    \/ (\E outcome \in Outcomes : worker_handle(outcome)) /\ OutsideProto
    \/ worker_overflow /\ OutsideProto
    \/ worker_exit /\ OutsideProto

SpecProto == InitOneStream /\ [][ProtoNext]_vars

\* a step on the pipe leaves the other subsystems as they are
OutsidePipe == UNCHANGED <<svars, tvars, rvars, gvars, avars, pvars, hvars, cvars, dvars, bvars, lvars, qvars, kvars>>
PipeNext ==
    \/ (\E msgData \in Payloads : IPCPipe_send(msgData)) /\ OutsidePipe
    \/ IPCPipe_send_data /\ OutsidePipe
    \/ (\E msgData \in Payloads : streamingLoop_send(msgData)) /\ OutsidePipe
    \/ streamingLoop_send_data /\ OutsidePipe
    \/ IPCPipe_receive /\ OutsidePipe
    \/ readExact_read /\ OutsidePipe
    \/ readExact_timeout /\ OutsidePipe
    \/ IPCPipe_close /\ OutsidePipe

SpecPipe == InitOneStream /\ [][PipeNext]_vars

\* a step of the health monitor leaves the other subsystems as they are
OutsideHealth == UNCHANGED <<svars, tvars, rvars, gvars, avars, pvars, ivars, cvars, dvars, bvars, lvars, qvars, kvars>>
HealthNext ==
    \/ (\E ch \in Channels : health_activateStream(ch)) /\ OutsideHealth
    \/ (\E ch \in Channels : health_closeStream(ch)) /\ OutsideHealth
    \/ (\E ch \in Channels : health_rx_callback(ch)) /\ OutsideHealth
    \/ health_ev_callback /\ OutsideHealth
    \/ watchdog_tick /\ OutsideHealth
    \/ (\E responsive, restartOk, restartAgainOk \in BOOLEAN :
            handleStaleStream(responsive, restartOk, restartAgainOk)) /\ OutsideHealth
    \/ triggerRecovery /\ OutsideHealth

InitEveryHealth == Init /\ OneStream /\ OneGate /\ OneSettings /\ OneBw
SpecHealth == InitEveryHealth /\ [][HealthNext]_vars

\* a setter leaves the other subsystems as they are
OutsideSettings == UNCHANGED <<svars, tvars, rvars, gvars, avars, pvars, ivars, hvars, dvars, bvars, lvars, qvars, kvars>>
SettingsNext ==
    \/ cfg_setupStream /\ OutsideSettings
    \/ cfg_activateStream /\ OutsideSettings
    \/ cfg_readStream /\ OutsideSettings
    \/ (\E automatic \in BOOLEAN, outcome \in UpdateOutcomes :
            cfg_setGainMode(automatic, outcome)) /\ OutsideSettings
    \/ (\E value \in IfgrValues, outcome \in UpdateOutcomes :
            cfg_setGain("IFGR", value, outcome)) /\ OutsideSettings
    \/ (\E value \in LnaStates, outcome \in UpdateOutcomes :
            cfg_setGain("RFGR", value, outcome)) /\ OutsideSettings
    \/ (\E bestLnaState \in LnaStates, bestIfGr \in IfgrValues,
           outcome \in UpdateOutcomes :
            cfg_setGainOverall(bestLnaState, bestIfGr, outcome)) /\ OutsideSettings
    \/ (\E rate \in Rates, outcome \in UpdateOutcomes :
            cfg_setSampleRate(rate, outcome)) /\ OutsideSettings
    \/ (\E rate \in Rates, outcome \in UpdateOutcomes :
            cfg_proxy_setSampleRate(rate, outcome)) /\ OutsideSettings

InitEverySettings == Init /\ OneStream /\ OneGate /\ OneHealth /\ OneBw
SpecSettings == InitEverySettings /\ [][SettingsNext]_vars

\* opening and closing sessions leaves the other subsystems as they are
OutsideSessions == UNCHANGED <<svars, tvars, rvars, gvars, avars, pvars, ivars, hvars, cvars, bvars, lvars, qvars, kvars>>
SessionsNext ==
    \/ (\E s \in Sessions, key \in SessionKeys, selectOk \in BOOLEAN :
            SoapySDRPlay_ctor(s, key, selectOk)) /\ OutsideSessions
    \/ (\E s \in Sessions : SoapySDRPlay_dtor(s)) /\ OutsideSessions

SpecSessions == InitOneStream /\ [][SessionsNext]_vars

\* the mapping leaves the other subsystems as they are
OutsideBw == UNCHANGED <<svars, tvars, rvars, gvars, avars, pvars, ivars, hvars, cvars, dvars, lvars, qvars, kvars>>
BwNext ==
    \/ bw_getBwEnumForRate /\ OutsideBw
    \/ (\E rate1, rate2 \in BwRates : bw_next(rate1, rate2)) /\ OutsideBw

InitEveryBw == Init /\ OneStream /\ OneGate /\ OneHealth /\ OneSettings
SpecBw == InitEveryBw /\ [][BwNext]_vars

\* the command loop of the worker (SoapySDRPlayWorker.cpp:162-168) polls the
\* command pipe every 100 ms for as long as the process runs: a command that
\* waits in the pipe is handled
WorkerLoop == (\E outcome \in Outcomes : worker_handle(outcome)) /\ OutsideProto
\* ---- mutexes of one session ----
OutsideLocks == UNCHANGED <<svars, tvars, rvars, gvars, avars, pvars, ivars, hvars, cvars, dvars, bvars, qvars, kvars>>

LocksNext ==
    /\ ~lkTerminated
    /\ \/ \E t \in LkThreads, o \in LkOps : lk_call(t, o) /\ OutsideLocks
       \/ \E t \in LkThreads : lk_lock(t) /\ OutsideLocks
       \/ \E t \in LkThreads : lk_relock_throws(t) /\ OutsideLocks
       \/ \E t \in LkThreads : lk_try_lock(t) /\ OutsideLocks
       \/ \E t \in LkThreads : lk_unlock(t) /\ OutsideLocks
       \/ \E t \in LkThreads : lk_stream_step(t) /\ OutsideLocks
       \/ \E t \in LkThreads : lk_read_step(t) /\ OutsideLocks
       \/ \E t \in LkThreads : lk_startWatchdog(t) /\ OutsideLocks
       \/ \E t \in LkThreads : lk_stopWatchdog(t) /\ OutsideLocks
       \/ \E stale \in BOOLEAN : watchdogThreadFunc(stale) /\ OutsideLocks
       \/ \E t \in LkThreads : lk_recovery_step(t) /\ OutsideLocks

SpecLocks == InitOneStream /\ [][LocksNext]_vars

\* ---- the ring the proxy owns ----
OutsideRings == UNCHANGED <<svars, tvars, rvars, gvars, avars, pvars, ivars, hvars, cvars, dvars, bvars, lvars, kvars>>

RingsNext ==
    \/ (\E h \in ProxyHandles, start \in WorkerStarts : ring_setupStream(h, start))
           /\ OutsideRings
    \/ (\E h \in ProxyHandles : ring_readStream(h)) /\ OutsideRings
    \/ (\E h \in ProxyHandles, start \in WorkerStarts : ring_readStream_stalled(h, start))
           /\ OutsideRings
    \/ (\E h \in ProxyHandles : ring_closeStream(h)) /\ OutsideRings

SpecRings == InitOneStream /\ [][RingsNext]_vars

SpecProtoFair == SpecProto /\ WF_vars(WorkerLoop)

OutsideRefs == UNCHANGED <<svars, tvars, rvars, gvars, avars, pvars, ivars, hvars, cvars, dvars, bvars, lvars, qvars>>

RefsNext ==
    \/ (\E h \in StreamHandles : ref_setupStream(h)) /\ OutsideRefs
    \/ (\E h \in StreamHandles, initOk \in BOOLEAN : ref_activateStream(h, initOk))
           /\ OutsideRefs
    \/ (\E h \in StreamHandles : ref_deactivateStream(h)) /\ OutsideRefs
    \/ (\E h \in StreamHandles : ref_closeStream(h)) /\ OutsideRefs

SpecRefs == InitOneStream /\ [][RefsNext]_vars

(***************************************************************************)
(* Properties of the stream engine                                         *)
(***************************************************************************)
\* C1: under every interleaving of rx_callback with acquireReadBuffer,
\* releaseReadBuffer, readStream and the reset/overflow drain, the number of
\* in-flight buffers stays within 0 .. numBuffers.
C1_CountInRange == count >= 0 /\ count <= numBuffers

\* the ring is full and a further burst has been turned away
C1_Witness == count = numBuffers /\ overflowEvent /\ op = "rx_callback"

\* C2: the samples handed to the consumer by acquireReadBuffer / readStream come
\* in the order in which rx_callback stored them, also when the ring fills up and
\* tail wraps onto head.
C2_DeliveredInOrder == inOrder

\* the buffer the consumer holds between acquireReadBuffer and releaseReadBuffer:
\* the handles of the direct API and the buffer readStream is copying from
ConsumerHolds ==
    held \cup (IF pc \in {"rdCopy", "rdRelease"} \/ nElems > 0 THEN {currentHandle} ELSE {})

\* C3: every buffer has exactly one role - being filled (index = tail), in flight
\* (one of the count completed buffers before tail) or free - and a step of the
\* producer callback never makes a buffer longer that is in flight or that the
\* consumer holds between acquireReadBuffer and releaseReadBuffer.
C3_OneRoleNoAppend ==
    [][ /\ tail' \notin InFlight(tail', count')
        /\ \A h \in Handles :
              Len(buffs'[h]) > Len(buffs[h])
                 => h \notin InFlight(tail, count) /\ h \notin ConsumerHolds ]_vars

\* a step that enters a consumer read: acquireReadBuffer or readStream is called
ReadEntry == pc = "idle" /\ op' \in {"acquireReadBuffer", "readStream"}

\* a step that enters acquireReadBuffer: called by the application, or by
\* readStream when no fragment of the current buffer is left (Streaming.cpp:704)
AcquireEntry ==
    pc = "idle" /\ (op' = "acquireReadBuffer" \/ (op' = "readStream" /\ nElems = 0))

\* a step in which a consumer read returns SOAPY_SDR_OVERFLOW
ReturnsOverflow ==
    /\ op' \in {"acquireReadBuffer", "readStream"}
    /\ pc' = "idle" /\ ret'.code = "OVERFLOW"

\* the ring is as empty as that of a new stream
Drained == count = 0 /\ head = 0 /\ tail = 0 /\ \A h \in Handles : buffs[h] = <<>>

\* C4 as stated: whenever the overflow flag is set, the next consumer read
\* (acquireReadBuffer / readStream) returns OVERFLOW and clears the flag, also
\* when a stream reset is pending at that read.
C4_NextReadReturnsOverflow ==
    [][ ReadEntry /\ overflowEvent => ReturnsOverflow /\ ~overflowEvent' ]_vars

\* C4 amended: the overflow is surfaced by the next entry of acquireReadBuffer.
\* Without a pending reset that call returns OVERFLOW; with a pending reset it
\* drains silently and clears both flags. Either way the ring is left empty, and
\* every OVERFLOW returned consumes one recorded overflow.
C4_OverflowSurfacedOnce ==
    [][ /\ AcquireEntry /\ overflowEvent
           => /\ ~overflowEvent' /\ ~reset' /\ Drained'
              /\ (~reset => ReturnsOverflow)
              /\ (reset => ~ReturnsOverflow)
        /\ ReturnsOverflow => AcquireEntry /\ overflowEvent /\ ~reset ]_vars

\* a read has just returned OVERFLOW and left the ring empty
C4_Witness ==
    /\ op \in {"acquireReadBuffer", "readStream"} /\ pc = "idle"
    /\ ret.code = "OVERFLOW" /\ Drained /\ ~overflowEvent

\* C5: in every reachable state and for every burst length, a callback that
\* arrives with count = numBuffers, or whose burst would take the fill buffer
\* (the buffer at tail once the threshold rule has moved tail) beyond its
\* reserved capacity, sets the overflow flag and stores no sample of the burst;
\* and no buffer is ever longer than its reserved capacity.
C5_OverflowDropsBurst ==
    /\ \A h \in Handles : BuffSize(buffs[h]) <= bufferLength
    /\ \A numSamples \in 1 .. MaxBurst :
          LET r == RxApply(count, tail, buffs, overflowEvent, nextSample,
                           cachedBufferThreshold, numSamples)
              fill == buffs[r.tail]
          IN  (count = numBuffers
                 \/ BuffSize(fill) + numSamples * elementsPerSample > bufferLength)
              => r.overflowEvent /\ r.buffs = buffs /\ r.nextSample = nextSample

\* the only callback so far met a ring that was not full and dropped its burst
C5_Witness ==
    /\ op = "rx_callback" /\ bursts = 1
    /\ overflowEvent /\ count < numBuffers
    /\ \A h \in Handles : buffs[h] = <<>>

\* a step that releases a buffer: releaseReadBuffer called by the application, or
\* by readStream after the last fragment (Streaming.cpp:764)
ReleaseStep ==
    op' = "releaseReadBuffer" \/ (pc = "rdRelease" /\ op' = "readStream")

\* the handle a release step releases
ReleasedHandle ==
    IF op' = "releaseReadBuffer" THEN CHOOSE h \in held : h \notin held' ELSE currentHandle

C7_CallbackNeverOnFreedStream ==
    cbPc \in {"lockStream", "inCallback"} => objs[cbStream] = "live"

\* closeStream has cleared the slot and is waiting on stream->mutex, which a
\* callback in flight on that stream holds
C7_Witness ==
    /\ appPc = "closeLockStream" /\ streamsSlot = nullptr
    /\ cbPc = "inCallback" /\ cbStream = appStream
    /\ streamMutex[appStream] = "cb"

\* C27: the setupStream calls made for the channel share one stream object:
\* the handles the application holds to live streams are all the same stream.
C27_SetupSharesStream ==
    \A a, b \in appStreams : (objs[a] = "live" /\ objs[b] = "live") => a = b

(***************************************************************************)
(* Properties of the shared ring                                           *)
(***************************************************************************)
\* C8: under every interleaving of the producer's write with the consumer's
\* read and getReadPtr / advanceRead, read_idx never passes write_idx and
\* write_idx - read_idx never exceeds the number of slots of the ring.
C8_RingWithinCapacity ==
    readIdx <= writeIdx /\ writeIdx - readIdx <= RingSamples

\* a truncated write has filled the ring again after the consumer moved on
C8_Witness ==
    /\ rop = "write_commit" /\ writeIdx - readIdx = RingSamples
    /\ readIdx > 0 /\ overflowCount > 0

\* C9 as stated: write_idx, read_idx, sample_count and overflow_count never
\* decrease, whatever write, read, advanceRead, overflow recording, reattach and
\* worker restart do.
C9_IndicesNeverDecrease ==
    [][ /\ writeIdx' >= writeIdx /\ readIdx' >= readIdx
        /\ sampleCount' >= sampleCount /\ overflowCount' >= overflowCount ]_vars

\* C9 amended: the four counters never decrease as long as the ring is the same
\* one; a worker restart creates the ring again and with it all four, and the
\* write index the proxy saw last, start from zero.
C9_MonotoneUntilRestart ==
    [][ IF ringGen' = ringGen
        THEN /\ writeIdx' >= writeIdx /\ readIdx' >= readIdx
             /\ sampleCount' >= sampleCount /\ overflowCount' >= overflowCount
        ELSE /\ writeIdx' = 0 /\ readIdx' = 0 /\ sampleCount' = 0
             /\ overflowCount' = 0 /\ lastSeenWriteIdx' = 0 ]_vars

\* the ring created by a worker restart has been written, read and overflowed
C9_Witness ==
    /\ ringGen > 0 /\ writeIdx > 0 /\ readIdx > 0
    /\ sampleCount > 0 /\ overflowCount > 0

\* C10: a write of k samples that finds free space f = M - (write_idx - read_idx)
\* smaller than k adds exactly one to overflow_count and goes on with f samples
\* (returning 0 at once when f = 0); the write then stores the first samples of
\* the request, as many as it went on with, in the slots from write_idx on, moves
\* write_idx by that number and returns it.
C10_TruncatedWrite ==
    [][ /\ rop' = "write_begin" =>
              LET k == Len(wReq')
                  f == RingSamples - (writeIdx - readIdx)
              IN  k > f =>
                     /\ overflowCount' = overflowCount + 1
                     /\ wCount' = f
                     /\ writeIdx' = writeIdx /\ data' = data
                     /\ f = 0 => wPc' = "idle" /\ wRet' = 0
        /\ rop' = "write_commit" =>
              /\ overflowCount' = overflowCount
              /\ writeIdx' = writeIdx + wCount
              /\ wRet' = wCount
              /\ \A i \in 1 .. wCount : data'[(writeIdx + i - 1) % RingSamples] = wReq[i]
              /\ \A p \in Slots :
                    (\A i \in 1 .. wCount : (writeIdx + i - 1) % RingSamples # p)
                       => data'[p] = data[p] ]_vars

\* a write of more samples than were free has returned after storing a part
C10_Witness ==
    /\ rop = "write_commit" /\ wCount > 0 /\ Len(wReq) > wCount
    /\ wRet = wCount /\ overflowCount = 1

(***************************************************************************)
(* Properties of the shared ring: what the consumer reads                  *)
(***************************************************************************)
\* the slots the producer is copying into between its load of the indices and
\* its store of writeIdx (RingBuffer.cpp:231-244)
WritingSlots ==
    IF wPc = "copy"
    THEN {(wWriteIdx + i - 1) % RingSamples : i \in 1 .. wCount}
    ELSE {}

\* the sample numbers the consumer is reading: those read is copying out
\* (RingBuffer.cpp:328-338), or the chunk behind the pointer of getReadPtr
\* (RingBuffer.cpp:390-394) until releaseReadBuffer
ReadingIdx ==
    IF rPc = "copy" THEN lastReadIdx .. (lastReadIdx + rCount - 1)
    ELSE IF rHeld > 0 THEN lastReadIdx .. (lastReadIdx + rHeld - 1)
    ELSE {}

\* C11: every slot the consumer reads holds the sample of that position,
\* completely written, and the producer is not writing into any slot the
\* consumer reads and has not yet released by storing read_idx.
C11_ReadsOnlyWrittenSlots ==
    \A j \in ReadingIdx :
        /\ j % RingSamples \notin WritingSlots
        /\ data[j % RingSamples] = j + 1

\* the consumer copies samples out of slots the producer has used a second time,
\* while the producer copies the next samples in
C11_Witness ==
    /\ rPc = "copy" /\ rCount > 0 /\ lastReadIdx >= RingSamples
    /\ wPc = "copy" /\ wCount > 0

\* C38: releaseReadBuffer after an acquireReadBuffer that handed out a chunk
\* advances the read index by the number of samples of that chunk
C38_ReleaseAdvancesByAcquired ==
    [][(rop' = "releaseReadBuffer" /\ rHeld > 0 /\ rHeld' = 0)
          => (lastReadIdx' = lastReadIdx + rHeld /\ readIdx' = lastReadIdx')]_vars

(***************************************************************************)
(* Properties of the cross-process gate                                    *)
(***************************************************************************)
\* a thread is inside its device-open critical section from the construction of
\* its SDRplayLockGuard to the destruction (SoapySDRPlayProxy.cpp:340-367)
InSection(t) == guards[t] > 0

\* C12: at most one device-open critical section is in flight at any time,
\* across all threads of a process and across all processes that share the lock
\* file.
C12_OneOpenAtATime ==
    \A t \in GateThreadsAll, u \in GateThreadsAll :
        (InSection(t) /\ InSection(u)) => t = u

\* C13: with one thread in each process, a thread that holds the gate gets it
\* again at once when it nests a second guard, and the file lock stays with its
\* process until the outermost guard is gone.
C13_HeldUntilOutermostRelease ==
    gThreads = {"a1", "b1"} =>
        \A t \in gThreads :
            InSection(t) => (flockOwner = ProcOf(t) /\ held_[ProcOf(t)] /\ gPc[t] = "out")

(***************************************************************************)
(* Properties of the vendor-API gate                                       *)
(***************************************************************************)
\* the thread holds the gate: it has a live guard and owns the vendor's lock
HoldsGate(t) == lockDepth[t] > 0 /\ deviceApiLock = t

\* C14: a thread that is inside Update, Init, Uninit, SelectDevice,
\* ReleaseDevice, GetDeviceParams or SwapRspDuoActiveTuner holds the Vendor-API
\* gate.
C14_VendorCallsHoldGate ==
    \A t \in ApiThreads : inCall[t] \in GatedCalls => HoldsGate(t)

SetterAnswers == {<<"Ack">>, <<"Error">>}

C16_StartedAndStopped ==
    /\ (handled.cmd = "Start" /\ ~HasError(handled.replies)
            => handled.replies = <<"Started">>)
    /\ (handled.cmd = "Stop" => handled.replies = <<"Stopped">>)
\* C16: a Start that succeeds is answered by exactly one status, Started when
\* the worker was not streaming and Ack when it was streaming already; a Stop is
\* answered by exactly one status, Stopped when the worker was streaming and Ack
\* when it was not
C16_StartStopAnswered ==
    /\ (handled.cmd = "Start" /\ ~HasError(handled.replies)
            => handled.replies = (IF handled.strm THEN <<"Ack">> ELSE <<"Started">>))
    /\ (handled.cmd = "Stop"
            => handled.replies = (IF handled.strm THEN <<"Stopped">> ELSE <<"Ack">>))
\* a Start has reached a worker that was streaming already
C16_Witness ==
    handled.cmd = "Start" /\ handled.strm /\ handled.replies = <<"Ack">>

\* C17: once the proxy has sent Shutdown to a worker, that worker does not end
\* without the shutdown flag set in the ring
C17_ShutdownSetsFlag ==
    shutdownSent /\ wRun \in {"exited", "killed"} => "SHUTDOWN" \in flags

\* C18: when the recovery that a stalled read started completes, and the stream
\* was active before it, the stream is active again
C18_RecoveryRestoresStreaming ==
    pOp = "restart" /\ pPc = "idle" /\ pOut = "TIMEOUT" /\ wasStreaming
        => streamActive_

\* C19: the read that recovers a stalled worker gives the host nothing but
\* TIMEOUT: it raises no exception and returns no other error
C19_RecoveryOnlyTimeout ==
    pOp = "restart" /\ pPc = "idle" => pOut = "TIMEOUT"

(***************************************************************************)
(* Properties of the framing                                               *)
(***************************************************************************)
\* C20: after a length prefix above the maximum the receiving end is closed,
\* the refused frame is never handed on as a message, and no byte of its data
\* is ever taken as the first byte of a length prefix
C20_OversizedFrameDisconnects ==
    /\ (rcvResult = "tooLarge" => fd_ = -1)
    /\ ~(rcvPrefix.big /\ ~rcvPrefix.start)

\* C37: a receive that fails by timeout has taken no byte out of the pipe: the
\* timeout occurs in the read of the length, before the first byte of it
C37_TimeoutConsumesNothing ==
    [][(rcvPc \in {"len", "data"} /\ rcvPc' = "idle" /\ rcvResult' = "timeout")
          => (rcvPc = "len" /\ rcvGot = <<>>)]_vars

\* C36: in the byte stream of the pipe every byte that does not start a frame
\* follows a byte of the same sender: the length and the data of a frame lie
\* together, with no byte of another thread's frame between them
C36_FramesContiguous ==
    \A i \in 1 .. Len(pipeBytes) - 1 :
        ~pipeBytes[i + 1].start => pipeBytes[i + 1].by = pipeBytes[i].by

(***************************************************************************)
(* Properties of the health monitor                                        *)
(***************************************************************************)

\* the streams the last watchdog tick found unchanged for longer than the
\* callback timeout
TickLate == {ch \in tickSaw.live : /\ ch \in tickSaw.unchanged
                                   /\ tickSaw.elapsed[ch] > CallbackTimeoutTicks}

\* C21: once the health status is Failed, no later watchdog tick or recovery
\* call changes it to another status.
C21_FailedIsLatched ==
    [][(hStatus = "Failed" /\ hop' \in {"tick", "handleStaleStream", "triggerRecovery"})
         => hStatus' = "Failed"]_vars

C23_RemovedDeviceNotSupported ==
    [][(device_unavailable /\ pc = "idle"
          /\ op' \in {"readStream", "acquireReadBuffer"})
         => (pc' = "idle" /\ ret'.code = "NOT_SUPPORTED")]_vars

(***************************************************************************)
(* Properties of the device settings                                       *)
(***************************************************************************)

\* C24: with the AGC on, a write to IFGR leaves the IF gain reduction as it
\* was, and a write to RFGR makes the LNA state the value written.
C24_AgcGuardsIfgrOnly ==
    [][(cfgOp'.name = "setGain" /\ agcEnable # "AGC_DISABLE")
         => /\ cfgOp'.arg = "IFGR" => gRdB' = gRdB
            /\ cfgOp'.arg = "RFGR" => LNAstate' = cfgOp'.value]_vars

\* with the AGC on, an IFGR write of another value than the current one was made
C24_Witness ==
    /\ cfgOp.name = "setGain" /\ cfgOp.arg = "IFGR"
    /\ agcEnable # "AGC_DISABLE"
    /\ cfgOp.value # gRdB

\* C25: a setter whose vendor update did not succeed leaves the settings the
\* getters show as they were before the call.
C25_FailedUpdateKeepsState ==
    [][cfgOp'.update = "failed" => Settings' = Settings]_vars

\* C26: a request for an output sample rate the driver does not support changes
\* nothing (device parameters, reset flag, the rates the proxy and the worker
\* cache) and returns an error.
C26_UnsupportedRateRejected ==
    [][(/\ cfgOp'.name \in {"setSampleRate", "proxy_setSampleRate"}
        /\ ~SupportedRate(cfgOp'.value, rspDuoDual))
         => (Settings' = Settings /\ cfgOp'.ret = "error")]_vars

(***************************************************************************)
(* Properties of the device sessions                                       *)
(***************************************************************************)

\* C28: no two sessions of the process have the same key, and a constructor
\* called with a key that is in the set of claimed keys is refused.
C28_OneSessionPerKey ==
    /\ \A s1, s2 \in Sessions :
          (sessionKey[s1] # "" /\ sessionKey[s1] = sessionKey[s2]) => s1 = s2
    /\ (sessionOp.name = "ctor" /\ sessionOp.claimed) => sessionOp.result = "error"

(***************************************************************************)
(* Properties of the bandwidth mapping                                     *)
(***************************************************************************)

\* C29: every rate maps to one of the eight bandwidths, a larger rate never
\* maps to a smaller bandwidth, and 299999 maps to 200 kHz, 300000 to 300 kHz,
\* 5000000 to 5 MHz and 10000000 to 8 MHz.
C29_BwEnumTotalMonotone ==
    bwResults # <<>> =>
        /\ \A i \in {1, 2} :
              /\ bwResults[i] \in BwEnums
              /\ bwRates[i] = 299999 => bwResults[i] = "BW_0_200"
              /\ bwRates[i] = 300000 => bwResults[i] = "BW_0_300"
              /\ bwRates[i] = 5000000 => bwResults[i] = "BW_5_000"
              /\ bwRates[i] = 10000000 => bwResults[i] = "BW_8_000"
        /\ bwRates[1] <= bwRates[2]
              => getBwValueFromEnum(bwResults[1]) <= getBwValueFromEnum(bwResults[2])

\* the mapping was computed for the two rates around the first threshold
C29_Witness ==
    /\ bwRates = <<299999, 300000>>
    /\ bwResults = <<"BW_0_200", "BW_0_300">>

(***************************************************************************)
(* Properties of the mutexes of one session                                *)
(***************************************************************************)
\* the place of a mutex in the order general-state, stream, read; 0 for the others
LockRank(m) ==
    CASE m = "general" -> 1 [] m = "stream" -> 2 [] m = "read" -> 3 [] OTHER -> 0

\* C31: whenever a thread takes a mutex, it does not hold the Vendor-API gate,
\* and every mutex it holds of the three general-state, stream, read comes
\* before the new one in that order
C31_LockOrderGateInnermost ==
    [][\A t \in LkThreads :
          Len(lkHeld'[t]) > Len(lkHeld[t]) =>
              LET m == lkHeld'[t][Len(lkHeld'[t])]
              IN  \A i \in 1..Len(lkHeld[t]) :
                      /\ lkHeld[t][i] # "gate"
                      /\ (LockRank(lkHeld[t][i]) > 0 /\ LockRank(m) > 0)
                            => LockRank(lkHeld[t][i]) < LockRank(m)]_vars

\* C32: no thread uses the stream object (its readStreamMutex, its mutex, its
\* buffer) after closeStream has deleted it
C32_NoUseAfterDelete == ~lkFreedUse

\* C33: no thread is about to lock the general-state mutex while it holds it
C33_NoRelockOfGeneralState ==
    \A t \in LkThreads :
        ~(LkNext(t) = LkLock("general") /\ lkOwner["general"] = t)

\* C34: the thread that joins the watchdog thread holds no mutex that the
\* watchdog thread is waiting for
C34_JoinHoldsNothingWatchdogNeeds ==
    \A t \in LkThreads :
        (LkNext(t).k = "join" /\ lkWatchdogRunning) =>
            ~\E m \in Mutexes : lkOwner[m] = t /\ LkNext("wd") = LkLock(m)

(***************************************************************************)
(* Properties of proxy and worker: which command a status answers          *)
(***************************************************************************)
\* the statuses in the status pipe that answer a command (Overflow comes from
\* the streaming thread)
AnswersInPipe == SelectSeq(statQ, LAMBDA s : s # "Overflow")

\* C35: when waitForStatus accepts a status as success, the worker has handled
\* the command the proxy sent last and the status is one of its answers to
\* that command
C35_AcceptedStatusAnswersLastCommand ==
    [][(pPc = "status" /\ statQ # <<>> /\ statQ' = Tail(statQ)
           /\ Accepts(Head(statQ), pExpect) = "true")
          => (cmdQ = <<>> /\ Len(AnswersInPipe) <= Len(handled.replies))]_vars

(***************************************************************************)
(* Properties of the ring the proxy owns                                   *)
(***************************************************************************)
\* C39: whenever a stream handle's ring pointer is used, it points to the ring
\* the proxy holds at that moment, which exists
C39_HandleRingIsLive ==
    ringUse.h # "none" => (ringUse.held # 0 /\ ringUse.ring = ringUse.held)

(***************************************************************************)
(* Properties of the stream handles                                        *)
(***************************************************************************)
\* open handles on which activateStream has succeeded
OpenActivated == {h \in StreamHandles : refHandles[h].state = "open" /\ refHandles[h].activated}

\* the application asked for a handle and has closed every handle it got
EveryHandleClosed ==
    /\ \E h \in StreamHandles : refHandles[h].state = "closed"
    /\ \A h \in StreamHandles : refHandles[h].state # "open"

\* C40: the reference count of the channel is the number of open activated
\* handles, and once every handle has been closed (each exactly once) the
\* count is 0, the slot is empty, every stream object that was allocated has
\* been freed and streamActive is false
C40_RefCountIsOpenActivatedHandles ==
    /\ refCount = Cardinality(OpenActivated)
    /\ EveryHandleClosed =>
          /\ refCount = 0
          /\ refSlot = nullptr
          /\ \A o \in StreamObjects : refObjs[o] # "live"
          /\ ~refStreamActive

\* parts of C40, each on its own
RefCountMatches == refCount = Cardinality(OpenActivated)
ClosedMeansReleased ==
    EveryHandleClosed => (refCount = 0 /\ refSlot = nullptr /\ ~refStreamActive)
ClosedMeansFreed ==
    EveryHandleClosed => \A o \in StreamObjects : refObjs[o] # "live"
====
